---- MODULE Spec2Model ----
(***************************************************************************)
(* fastroute: path pattern compiler (New), segment matcher (match),        *)
(* parameter buffers pooled per pattern (sync.Pool, parameters.reset,      *)
(* Recycle) and ordered composition of routers (Chain).                    *)
(*                                                                         *)
(* A Go string is a sequence of one-character strings, indexed from 1:     *)
(* Go's s[i] is s[i+1] here, Go's s[a:b] is SubSeq(s, a+1, b).             *)
(***************************************************************************)
EXTENDS Integers, Sequences, FiniteSets, TLC

\* longest pattern / request path drawn from the alphabets
MaxPatLen == 4
MaxPathLen == 4
\* buffers one pattern's pool.New may allocate
MaxBufs == 2
MaxCleanLen == 7

Slash == "/"
Markers == {":", "*"}

NoPanic == "none"
ErrNilHandler == "given handler cannot be: nil"
ErrNotHandler == "not a handler given"
ErrNotAfterSlash == "special param matching signs, must follow after slash"
ErrNotNamed == "param must be named after sign"
ErrNotLast == "match all, must be the last segment in pattern"
ErrOneParam == "only one param per segment"
ErrIndex == "index out of range"
ErrSlice == "slice bounds out of range"

----------------------------------------------------------------------------
\* package strings, as New uses it

\* strings.IndexAny(s, chars): Go index of the first byte of s in chars, -1 if none
IndexAny(s, chars) ==
    IF \E i \in 1..Len(s) : s[i] \in chars
    THEN (CHOOSE i \in 1..Len(s) : s[i] \in chars /\ \A j \in 1..(i-1) : s[j] \notin chars) - 1
    ELSE -1

\* strings.Count(s, c) for a one-byte c
Count(s, c) == Cardinality({i \in 1..Len(s) : s[i] = c})

\* strings.TrimLeft(s, "/")
RECURSIVE TrimLeft(_)
TrimLeft(s) == IF Len(s) > 0 /\ s[1] = Slash THEN TrimLeft(Tail(s)) ELSE s

\* strings.TrimRight(s, "/"), the right half of strings.Trim
RECURSIVE TrimRight(_)
TrimRight(s) ==
    IF Len(s) > 0 /\ s[Len(s)] = Slash THEN TrimRight(SubSeq(s, 1, Len(s) - 1)) ELSE s

\* strings.Trim(s, "/")
Trim(s) == TrimRight(TrimLeft(s))

\* strings.Split(s, "/"): the pieces between separators, empty pieces kept
RECURSIVE Split(_)
Split(s) ==
    LET pos == IndexAny(s, {Slash})
    IN  IF pos = -1 THEN <<s>>
        ELSE <<SubSeq(s, 1, pos)>> \o Split(SubSeq(s, pos + 2, Len(s)))

----------------------------------------------------------------------------
\* Params and the matcher

\* (ps *Params) push: reslices to n+1 within the capacity, then stores the pair
push(ps, cap, key, val) ==
    IF Len(ps) + 1 > cap
    THEN [ps |-> ps, panic |-> ErrSlice]
    ELSE [ps |-> Append(ps, [Key |-> key, Value |-> val]), panic |-> NoPanic]

\* scanEnd with the scan started one byte late (end := 2)
RECURSIVE scanEndLate(_, _)
scanEndLate(url, end) ==
    IF end + 1 < Len(url) /\ url[end + 2] # Slash THEN scanEndLate(url, end + 1) ELSE end + 1

\* the scan of a named parameter: end := 1; for end < len(url) && url[end] != '/'
RECURSIVE scanEnd(_, _)
scanEnd(url, end) ==
    IF end < Len(url) /\ url[end + 1] # Slash THEN scanEnd(url, end + 1) ELSE end

\* catchAllValue without the separator before the catch-all (url[1:])
catchAllValueNoSlash(url) == Tail(url)

\* what a catch-all segment binds: push(segment[2:], url)
catchAllValue(url) == url

\* the static case: len(url) < len(segment) || url[:len(segment)] != segment
staticMismatch(url, segment) ==
    Len(url) < Len(segment) \/ SubSeq(url, 1, Len(segment)) # segment

\* the final return of match: (!ts && url == "") || (ts && url == "/")
trailingOK(url, ts) == (~ts /\ url = <<>>) \/ (ts /\ url = <<Slash>>)

\* match, from segment i on. ok: the returned bool; ps: the buffer as left;
\* panic: the runtime error that ended the call, if any
RECURSIVE matchFrom(_, _, _, _, _, _)
matchFrom(segments, i, url, ps, cap, ts) ==
    IF i > Len(segments)
    THEN [ok |-> trailingOK(url, ts), ps |-> ps, panic |-> NoPanic]
    ELSE
    LET segment == segments[i]
        fail == [ok |-> FALSE, ps |-> ps, panic |-> NoPanic]
    IN  IF Len(url) = 0 \/ url[1] # Slash THEN fail
        ELSE IF Len(segment) < 2
        THEN [ok |-> FALSE, ps |-> ps, panic |-> ErrIndex]   \* segment[1]
        ELSE IF segment[2] = ":" /\ Len(url) > 1
        THEN LET end == scanEnd(url, 1)
                 r == push(ps, cap, SubSeq(segment, 3, Len(segment)), SubSeq(url, 2, end))
             IN  IF r.panic # NoPanic
                 THEN [ok |-> FALSE, ps |-> ps, panic |-> r.panic]
                 ELSE matchFrom(segments, i + 1, SubSeq(url, end + 1, Len(url)), r.ps, cap, ts)
        ELSE IF segment[2] = "*"
        THEN LET r == push(ps, cap, SubSeq(segment, 3, Len(segment)), catchAllValue(url))
             IN  [ok |-> r.panic = NoPanic, ps |-> r.ps, panic |-> r.panic]
        ELSE IF staticMismatch(url, segment) THEN fail
        ELSE matchFrom(segments, i + 1, SubSeq(url, Len(segment) + 1, Len(url)), ps, cap, ts)

match(segments, url, ps, cap, ts) == matchFrom(segments, 1, url, ps, cap, ts)

----------------------------------------------------------------------------
\* New

\* the handler values a caller may pass: http.HandlerFunc, a plain func,
\* nil, another http.Handler implementation, a value that is no handler
HandlerKinds == {"HandlerFunc", "func", "nil", "Handler", "string"}

\* the type switch on the handler
handlerError(kind) ==
    CASE kind \in {"HandlerFunc", "func"} -> NoPanic
      [] kind = "nil" -> ErrNilHandler
      [] OTHER -> ErrNotHandler

\* p := "/" + strings.TrimLeft(path, "/")
normalize(path) == <<Slash>> \o TrimLeft(path)

\* strings.IndexAny(p, ":*") == -1
isStatic(p) == IndexAny(p, Markers) = -1

\* segmentError without the check of the catch-all's place
segmentErrorAnyPlace(seg, i, n) ==
    LET pos == IndexAny(seg, Markers)
    IN  IF pos = -1 THEN NoPanic
        ELSE IF pos # 0 THEN ErrNotAfterSlash
        ELSE IF Len(seg) - 1 = pos THEN ErrNotNamed
        ELSE IF IndexAny(Tail(seg), Markers) # -1 THEN ErrOneParam
        ELSE NoPanic

\* the checks on one segment, in the order of the else-if chain
segmentError(seg, i, n) ==
    LET pos == IndexAny(seg, Markers)
    IN  IF pos = -1 THEN NoPanic
        ELSE IF pos # 0 THEN ErrNotAfterSlash
        ELSE IF Len(seg) - 1 = pos THEN ErrNotNamed
        ELSE IF seg[1] = "*" /\ i # n THEN ErrNotLast
        ELSE IF IndexAny(Tail(seg), Markers) # -1 THEN ErrOneParam
        ELSE NoPanic

\* the validation loop: the panic of the first bad segment
patternError(segs) ==
    IF \E i \in 1..Len(segs) : segmentError(segs[i], i, Len(segs)) # NoPanic
    THEN LET i == CHOOSE k \in 1..Len(segs) :
                      /\ segmentError(segs[k], k, Len(segs)) # NoPanic
                      /\ \A j \in 1..(k-1) : segmentError(segs[j], j, Len(segs)) = NoPanic
         IN  segmentError(segs[i], i, Len(segs))
    ELSE NoPanic

\* segments[i] = "/" + seg
compileSegments(segs) == [i \in 1..Len(segs) |-> <<Slash>> \o segs[i]]

NoRoute == [kind |-> "none"]

\* New(path, handler): err is the panic message, route the Router returned
New(path, handler, hkind) ==
    LET p == normalize(path)
        segs == Split(Trim(p))
    IN  IF handlerError(hkind) # NoPanic
        THEN [err |-> handlerError(hkind), route |-> NoRoute]
        ELSE IF isStatic(p)
        THEN [err |-> NoPanic,
              route |-> [kind |-> "static", p |-> p, h |-> handler]]
        ELSE IF patternError(segs) # NoPanic
        THEN [err |-> patternError(segs), route |-> NoRoute]
        ELSE [err |-> NoPanic,
              route |-> [kind |-> "dynamic", p |-> p, h |-> handler,
                         segments |-> compileSegments(segs),
                         ts |-> p[Len(p)] = Slash,
                         num |-> Count(p, ":") + Count(p, "*")]]

----------------------------------------------------------------------------
\* src/router.go: Route and its matcher, the router New combines

\* the type switch of Route: it has no case for nil
routeHandlerError(kind) ==
    IF kind \in {"HandlerFunc", "func"} THEN NoPanic ELSE ErrNotHandler

\* the reslice of match, *ps = (*ps)[:n+1], then the pair stored at n
bind(ps, cap, key, val) ==
    IF Len(ps) + 1 > cap
    THEN [ps |-> ps, panic |-> ErrSlice]
    ELSE [ps |-> Append(ps, [Key |-> key, Value |-> val]), panic |-> NoPanic]

\* what the catch-all case of match stores: url[1:]
remainder(url) == SubSeq(url, 2, Len(url))

\* match of src/router.go, from segment i on
RECURSIVE matchSegments(_, _, _, _, _, _)
matchSegments(segments, i, url, ps, cap, ts) ==
    IF i > Len(segments)
    THEN [ok |-> trailingOK(url, ts), ps |-> ps, panic |-> NoPanic]
    ELSE
    LET seg == segments[i]
        lu == Len(url)
        fail == [ok |-> FALSE, ps |-> ps, panic |-> NoPanic]
    IN  IF lu = 0 THEN fail
        ELSE IF Len(seg) < 2
        THEN [ok |-> FALSE, ps |-> ps, panic |-> ErrIndex]   \* seg[1]
        ELSE IF seg[2] = ":"
        THEN LET end == scanEnd(url, 1)
                 r == bind(ps, cap, SubSeq(seg, 3, Len(seg)), SubSeq(url, 2, end))
             IN  IF r.panic # NoPanic
                 THEN [ok |-> FALSE, ps |-> ps, panic |-> r.panic]
                 ELSE matchSegments(segments, i + 1, SubSeq(url, end + 1, lu), r.ps, cap, ts)
        ELSE IF seg[2] = "*"
        THEN LET r == bind(ps, cap, SubSeq(seg, 3, Len(seg)), remainder(url))
             IN  [ok |-> r.panic = NoPanic, ps |-> r.ps, panic |-> r.panic]
        ELSE IF lu < Len(seg) THEN fail
        ELSE IF SubSeq(url, 1, Len(seg)) = seg
        THEN matchSegments(segments, i + 1, SubSeq(url, Len(seg) + 1, lu), ps, cap, ts)
        ELSE fail

\* Route(path, handler): err is the panic message, route the Router returned
Route(path, handler, hkind) ==
    LET p == normalize(path)
        segs == Split(Trim(p))
    IN  IF routeHandlerError(hkind) # NoPanic
        THEN [err |-> routeHandlerError(hkind), route |-> NoRoute]
        ELSE IF isStatic(p)
        THEN [err |-> NoPanic,
              route |-> [kind |-> "static", p |-> p, h |-> handler]]
        ELSE IF patternError(segs) # NoPanic
        THEN [err |-> patternError(segs), route |-> NoRoute]
        ELSE [err |-> NoPanic,
              route |-> [kind |-> "dynamic", p |-> p, h |-> handler,
                         segments |-> compileSegments(segs),
                         ts |-> p[Len(p)] = Slash,
                         num |-> Count(p, ":") + Count(p, "*")]]

\* Match of one router Route returned, on a buffer fresh from the pool
routerGoMatch(rt, path) ==
    IF rt.kind = "static"
    THEN [ok |-> rt.p = path, ps |-> <<>>, panic |-> NoPanic]
    ELSE matchSegments(rt.segments, 1, path, <<>>, rt.num, rt.ts)

----------------------------------------------------------------------------
\* Inputs

PatChars == {Slash, "a", ":", "*"}
PathChars == {Slash, "a"}

\* all strings over an alphabet, up to a length
StringsUpTo(chars, n) == UNION {[1..k -> chars] : k \in 0..n}

\* patterns and paths of the package documentation and of
\* TestDynamicRouteMatcher, TestStaticRouteMatcher, with names shortened
PatPrefixSuffix == <<"/", "p", "/", ":", "x", "/", "s">>
PatFiles == <<"/", "f", "/", "*", "r">>
PatFilesSlash == <<"/", "f", "/", "*", "r", "/">>
PatBlog == <<"/", "b", "/", ":", "c", "/", ":", "p">>
PatUsers == <<"/", "u", "/", ":", "i", "/", ":", "b", "/">>
PatEmptySeg == <<"/", "a", "/", "/", ":", "b">>
PatUserNew == <<"/", "u", "/", "n">>
PatUserId == <<"/", "u", "/", ":", "i">>

DocPatterns == {PatPrefixSuffix, PatFiles, PatFilesSlash, PatBlog, PatUsers, PatEmptySeg}

DocPaths ==
    { <<"/", "p", "/", "/", "s">>, <<"/", "p", "/", "v", "/", "s">>,
      <<"/", "p", "/", "v", "w", "/", "s">>, <<"/", "p", "/", "v", "/", "s", "/">>,
      <<"/", "f">>, <<"/", "f", "/">>, <<"/", "f", "/", "a">>,
      <<"/", "f", "/", "a", "/", "b", "/", "c">>,
      <<"/", "b", "/", "g", "/", "r">>, <<"/", "b", "/", "g", "/", "r", "/">>,
      <<"/", "b", "/", "g", "/">>, <<"/", "b", "/", "g", "/", "r", "/", "c">>,
      <<"/", "u", "/", "a", "/", "b", "/">>, <<"/", "u", "/", "a", "/", "b">>,
      <<"/", "a", "/", "/", "x">> }

PatternSet == StringsUpTo(PatChars, MaxPatLen) \cup DocPatterns
PathSet == StringsUpTo(PathChars, MaxPathLen) \cup DocPaths

\* the routers of the concurrent specification, as the tests chain them
ChainConfigs ==
    { <<PatUserNew, PatUserId>>, <<PatUserId, PatUserNew>>, <<PatUserId>> }
LifePaths ==
    { <<"/", "u", "/", "n">>, <<"/", "u", "/", "5">>, <<"/", "u", "/", "5", "/">> }

Reqs == {"r1", "r2"}

----------------------------------------------------------------------------
\* State

VARIABLES
    routes,   \* the routers given to Chain, in order
    regErr,   \* the panic of the last call of New, NoPanic if it returned
    newArgs,  \* the arguments of that call: the path and the handler's type
    bufs,     \* the *parameters values allocated so far: id -> [params, rc]
    pool,     \* each pattern's sync.Pool: buffer id -> times it lies in the pool
    req,      \* the requests: path, Body, and where their caller stands
    mux,      \* the Mux: its options and routes, the request it answers
    clean     \* the call of cleanPath: its argument and what it returned

fastrouteVars == <<routes, regErr, newArgs, bufs, pool, req>>
vars == <<routes, regErr, newArgs, bufs, pool, req, mux, clean>>

\* no call of New was observed
NoArgs == [path |-> <<>>, hkind |-> "none"]

\* a request Body that is no *parameters (the body the client sent)
OrigBody == <<>>
NoBuf == <<>>

isParameters(body) == body # OrigBody

FreshReq == [path |-> <<>>, body |-> OrigBody, pc |-> "idle", idx |-> 0,
             held |-> NoBuf, h |-> 0, call |-> "Route"]

\* RouterFunc(func(req) http.Handler { return rt }): a router whose function
\* returns the Router rt, or nil (NoRoute)
Returning(rt) == [kind |-> "func", ret |-> rt]

\* the router that answers for member i: RouterFunc.Route hands the request
\* to the Router its function returned (r.Route(req)), and RouterFunc.ServeHTTP
\* calls that Router's ServeHTTP
resolve(rt) == IF rt.kind = "func" THEN rt.ret ELSE rt
member(i) == resolve(routes[i])

\* Parameters(req)
Parameters(r) == IF isParameters(req[r].body) THEN bufs[req[r].body].params ELSE <<>>

\* Pattern returning req.URL.Path whatever the Body is
PatternOfPath(r) == req[r].path

\* Pattern(req)
Pattern(r) == IF isParameters(req[r].body) THEN member(req[r].body[1]).p ELSE req[r].path

----------------------------------------------------------------------------
\* sync.Pool

\* poolTake handing the buffer out and leaving it in the pool
poolTakeKeeps(pl, b) == pl

\* pool.Put(b)
poolPut(pl, b) == [pl EXCEPT ![b] = @ + 1]

\* what pool.Get leaves in the pool when it hands out b
poolTake(pl, b) == [pl EXCEPT ![b] = @ - 1]

\* the buffers pool.Get of route i may hand out: one lying in the pool, or a
\* new one from pool.New
pooledOf(i) == {b \in DOMAIN bufs : b[1] = i /\ pool[b] > 0}
newIds(i) == {k \in 1..MaxBufs : <<i, k>> \notin DOMAIN bufs}
\* pool.New handing out the pattern's first buffer again
nextNewFirst(i) == <<i, 1>>
nextNew(i) == <<i, CHOOSE k \in newIds(i) : \A j \in newIds(i) : k <= j>>

\* reset without req.Body = p.ReadCloser
resetKeepsBody(bf, pl, b) ==
    [body |-> b,
     bufs |-> [bf EXCEPT ![b].params = <<>>],
     pool |-> [pl EXCEPT ![b] = @ + 1]]

\* reset without p.params = p.params[0:0]
resetKeepsParams(bf, pl, b) ==
    [body |-> bf[b].rc,
     bufs |-> bf,
     pool |-> [pl EXCEPT ![b] = @ + 1]]

\* (p *parameters) reset(req): what it leaves as req.Body, the buffers, the pool
reset(bf, pl, b) ==
    [body |-> bf[b].rc,
     bufs |-> [bf EXCEPT ![b].params = <<>>],
     pool |-> poolPut(pl, b)]

\* release without ps.params = ps.params[0:0]
releaseNoClear(bf, pl, b) == [bufs |-> bf, pool |-> [pl EXCEPT ![b] = @ + 1]]

\* release that clears the buffer and does not put it back
releaseNoPut(bf, pl, b) == [bufs |-> [bf EXCEPT ![b].params = <<>>], pool |-> pl]

\* the matcher's failure branch: ps.params = ps.params[0:0]; pool.Put(ps)
release(bf, pl, b) ==
    [bufs |-> [bf EXCEPT ![b].params = <<>>],
     pool |-> poolPut(pl, b)]

\* staticMatch tolerating a trailing slash of the request
staticMatchLoose(p, path) == p = path \/ p \o <<Slash>> = path

\* the static router: p == req.URL.Path
staticMatch(p, path) == p = path

\* chainAfter that does not return at the first hit: the last hit wins
chainAfterLast(hit, idx, n) ==
    IF idx < n THEN [pc |-> "routing", idx |-> idx + 1]
    ELSE [pc |-> IF hit THEN "routed" ELSE "nil", idx |-> idx]

\* Chain's loop after member idx answered: return its handler, try the next
\* member, or return nil after the last
chainAfter(hit, idx, n) ==
    IF hit THEN [pc |-> "routed", idx |-> idx]
    ELSE IF idx < n THEN [pc |-> "routing", idx |-> idx + 1]
    ELSE [pc |-> "nil", idx |-> idx]

\* served handing a request nothing matched to a handler all the same
servedAlways(call, nx) ==
    IF call = "ServeHTTP" /\ nx.pc \in {"routed", "nil"}
    THEN [pc |-> "serving", idx |-> nx.idx]
    ELSE nx

\* what the entry point does with the outcome of its function: Route returns
\* it to the caller; ServeHTTP serves the handler, or answers http.NotFound
served(call, nx) ==
    IF call = "ServeHTTP" /\ nx.pc = "routed" THEN [pc |-> "serving", idx |-> nx.idx]
    ELSE IF call = "ServeHTTP" /\ nx.pc = "nil" THEN [pc |-> "notfound", idx |-> nx.idx]
    ELSE nx

----------------------------------------------------------------------------
\* package mux: what Mux.Server() makes of a request

\* strings.Join(elems, "/")
RECURSIVE Join(_)
Join(elems) ==
    IF Len(elems) = 0 THEN <<>>
    ELSE IF Len(elems) = 1 THEN elems[1]
    ELSE elems[1] \o <<Slash>> \o Join(Tail(elems))

\* path.Clean, element by element: empty and "." elements dropped, ".."
\* drops the element before it (at the root: itself)
RECURSIVE cleanElems(_, _, _)
cleanElems(elems, kept, rooted) ==
    IF Len(elems) = 0 THEN kept
    ELSE LET e == Head(elems)
             rest == Tail(elems)
         IN  IF e = <<>> \/ e = <<".">> THEN cleanElems(rest, kept, rooted)
             ELSE IF e = <<".", ".">>
             THEN IF Len(kept) > 0 /\ kept[Len(kept)] # <<".", ".">>
                  THEN cleanElems(rest, SubSeq(kept, 1, Len(kept) - 1), rooted)
                  ELSE IF rooted THEN cleanElems(rest, kept, rooted)
                  ELSE cleanElems(rest, Append(kept, e), rooted)
             ELSE cleanElems(rest, Append(kept, e), rooted)

\* path.Clean(p): the result ends in a separator only when it is the root
Clean(p) ==
    LET rooted == Len(p) > 0 /\ p[1] = Slash
        kept == cleanElems(Split(p), <<>>, rooted)
    IN  IF rooted THEN <<Slash>> \o Join(kept)
        ELSE IF kept = <<>> THEN <<".">>
        ELSE Join(kept)

\* the letters of the model that have an upper and a lower case
Lower == [c \in {"A", "B"} |-> IF c = "A" THEN "a" ELSE "b"]
fold(s) == [k \in 1..Len(s) |-> IF s[k] \in DOMAIN Lower THEN Lower[s[k]] ELSE s[k]]

\* strings.EqualFold
EqualFold(s, t) == fold(s) = fold(t)

\* the matcher of ComparesPathWith(router, strings.EqualFold): as match, the
\* static text compared with EqualFold; what the parameters bind is the
\* request's text
RECURSIVE matchFoldFrom(_, _, _, _, _)
matchFoldFrom(segments, k, url, ps, ts) ==
    IF k > Len(segments) THEN [ok |-> trailingOK(url, ts), ps |-> ps]
    ELSE
    LET segment == segments[k]
        fail == [ok |-> FALSE, ps |-> ps]
    IN  IF Len(url) = 0 \/ url[1] # Slash \/ Len(segment) < 2 THEN fail
        ELSE IF segment[2] = ":" /\ Len(url) > 1
        THEN LET end == scanEnd(url, 1)
             IN  matchFoldFrom(segments, k + 1, SubSeq(url, end + 1, Len(url)),
                               Append(ps, [Key |-> SubSeq(segment, 3, Len(segment)),
                                           Value |-> SubSeq(url, 2, end)]), ts)
        ELSE IF segment[2] = "*"
        THEN [ok |-> TRUE,
              ps |-> Append(ps, [Key |-> SubSeq(segment, 3, Len(segment)),
                                 Value |-> catchAllValue(url)])]
        ELSE IF Len(url) < Len(segment) \/ ~EqualFold(SubSeq(url, 1, Len(segment)), segment)
        THEN fail
        ELSE matchFoldFrom(segments, k + 1, SubSeq(url, Len(segment) + 1, Len(url)), ps, ts)

\* Match of one route on a path, with == or with EqualFold: hit, the
\* parameters bound, and what Pattern(req) returns after it
routeMatch(rt, path, folded) ==
    IF rt.kind = "static"
    THEN [ok |-> IF folded THEN EqualFold(rt.p, path) ELSE staticMatch(rt.p, path),
          ps |-> <<>>, pat |-> IF folded THEN rt.p ELSE path]
    ELSE IF folded
    THEN LET m == matchFoldFrom(rt.segments, 1, path, <<>>, rt.ts)
         IN  [ok |-> m.ok, ps |-> m.ps, pat |-> rt.p]
    ELSE LET m == match(rt.segments, path, <<>>, rt.num, rt.ts)
         IN  [ok |-> m.ok, ps |-> m.ps, pat |-> rt.p]

\* Match of the routes of one method, chained in the order of registration:
\* the first hit, ok FALSE when no route matches
RECURSIVE routerMatch(_, _, _)
routerMatch(rts, path, folded) ==
    IF Len(rts) = 0 THEN [ok |-> FALSE, ps |-> <<>>, pat |-> path]
    ELSE LET m == routeMatch(Head(rts), path, folded)
         IN  IF m.ok THEN m ELSE routerMatch(Tail(rts), path, folded)

\* toggleSlash that leaves the path as it is
toggleSlashNever(p) == p

\* the path with its trailing separator removed, or with one added
toggleSlash(p) ==
    IF p[Len(p)] = Slash THEN SubSeq(p, 1, Len(p) - 1) ELSE p \o <<Slash>>

\* fixedSegments taking every segment from the request
fixedSegmentsOfRequest(segs, params, path) == Split(path)

\* the loop over strings.Split(pat, "/"): a segment holding a marker gives
\* the value of the next parameter, any other segment itself
RECURSIVE fixedSegments(_, _, _)
fixedSegments(segs, params, path) ==
    IF Len(segs) = 0 THEN <<>>
    ELSE IF IndexAny(Head(segs), Markers) # -1
    THEN <<params[1].Value>> \o fixedSegments(Tail(segs), Tail(params), path)
    ELSE <<Head(segs)>> \o fixedSegments(Tail(segs), params, path)

NoFix == [hit |-> FALSE, to |-> <<>>]

\* the attempts of the redirecting router, in order: the first that matches
\* gives the fixed path
RECURSIVE tryAttempts(_, _, _)
tryAttempts(rts, attempts, folded) ==
    IF Len(attempts) = 0 THEN NoFix
    ELSE LET m == routerMatch(rts, Head(attempts), folded)
         IN  IF m.ok
             THEN [hit |-> TRUE, to |-> Join(fixedSegments(Split(m.pat), m.ps, Head(attempts)))]
             ELSE tryAttempts(rts, Tail(attempts), folded)

\* the routes of TestServeHTTP, shortened, and of the documented examples
MuxAB == <<"/", "a", "/", "b">>
MuxABSlash == <<"/", "a", "/", "b", "/">>
MuxAParamC == <<"/", "a", "/", ":", "b", "/", "c">>
MuxVUpper == <<"/", "v", "/", "A", "/">>
MuxHello == <<"/", "h", "/", ":", "n">>
MuxX == <<"/", "x">>

Methods == {"GET", "POST", "DELETE", "OPTIONS"}

\* m.routes after the registrations: method -> patterns in the order given
MuxTables ==
    { [m \in {"GET", "POST"} |->
          IF m = "GET" THEN <<MuxAParamC, MuxABSlash, MuxVUpper>> ELSE <<MuxHello>>],
      [m \in {"GET", "POST"} |-> <<MuxX>>],
      [m \in {"GET", "OPTIONS"} |-> IF m = "GET" THEN <<MuxABSlash>> ELSE <<MuxAB>>] }

MuxPaths ==
    { MuxAB, MuxABSlash,
      <<"/", "a", "/", "b", "b", "/", "c">>, <<"/", "a", "/", "b", "b", "/", "c", "/">>,
      <<"/", "A", "/", "B", "b", "/", "c">>,
      <<"/", "v", "/", "A", "/">>, <<"/", "v", "/", "a", "/">>, <<"/", "v", "/", "a">>,
      <<"/", "/", "a", "/", ".", "/", "b">>,
      <<"/", "h", "/", "j">>, MuxX, <<"/", "x", "/">>, <<"/", "u">>, <<"*">> }

\* the Mux as configured when Server() is called
MuxConfs ==
    [ RedirectTrailingSlash : BOOLEAN, RedirectFixedPath : BOOLEAN,
      AutoOptionsReply : BOOLEAN, MethodNotAllowed : BOOLEAN, NotFound : BOOLEAN,
      routes : MuxTables ]

\* New(): the default options, no handlers set
isDefault(conf) ==
    conf.RedirectTrailingSlash /\ conf.RedirectFixedPath /\ conf.AutoOptionsReply

\* m.routes[method], compiled by Route; no router when the method has none
routersOf(conf, method) ==
    IF method \in DOMAIN conf.routes
    THEN [k \in 1..Len(conf.routes[method]) |-> New(conf.routes[method][k], k, "func").route]
    ELSE <<>>

\* the router of Server(): m.routes[req.Method].Match(req)
methodMatch(conf, method, path) == routerMatch(routersOf(conf, method), path, FALSE)

\* the guard of redirectTrailingOrFixedPath, negated
redirectEnabled(conf) == ~(~conf.RedirectFixedPath \/ ~conf.RedirectTrailingSlash)

\* the second member of the server: the router itself when the guard returns
\* it, else the router that tries the cleaned path and its slash-toggled form
redirectTrailingOrFixedPath(conf, method, path) ==
    IF ~redirectEnabled(conf)
    THEN [serve |-> methodMatch(conf, method, path).ok, fix |-> NoFix]
    ELSE LET p == IF conf.RedirectFixedPath THEN Clean(path) ELSE path
             attempts == <<p>> \o (IF conf.RedirectTrailingSlash THEN <<toggleSlash(p)>> ELSE <<>>)
         IN  [serve |-> FALSE,
              fix |-> tryAttempts(routersOf(conf, method), attempts, conf.RedirectFixedPath)]

\* allowedMethods that does not skip the requested method
allowedMethodsWithOwn(conf, method, path) ==
    {m \in DOMAIN conf.routes : path = <<"*">> \/ methodMatch(conf, m, path).ok}

\* allowedMethods without the server wide path *
allowedMethodsNoWildcard(conf, method, path) ==
    {m \in DOMAIN conf.routes : m # method /\ methodMatch(conf, m, path).ok}

\* the methods allowed gathers from m.routes before it considers OPTIONS
allowedMethods(conf, method, path) ==
    {m \in DOMAIN conf.routes :
        /\ m # method
        /\ path = <<"*">> \/ methodMatch(conf, m, path).ok}

\* the orders in which ranging over the map m.routes may yield the methods
orders(S) == {s \in [1..Cardinality(S) -> S] : \A j, k \in 1..Cardinality(S) : s[j] = s[k] => j = k}

\* withOptions that adds OPTIONS whether or not AutoOptionsReply is set
withOptionsAlways(conf, allows) ==
    IF Len(allows) > 0 /\ \A k \in 1..Len(allows) : allows[k] # "OPTIONS"
    THEN Append(allows, "OPTIONS") ELSE allows

\* the end of allowed: OPTIONS is added, once, when a method is allowed and
\* AutoOptionsReply is set
withOptions(conf, allows) ==
    IF Len(allows) > 0 /\ conf.AutoOptionsReply /\ \A k \in 1..Len(allows) : allows[k] # "OPTIONS"
    THEN Append(allows, "OPTIONS") ELSE allows

\* the values allowed(req) may return
allowed(conf, method, path) ==
    {withOptions(conf, s) : s \in orders(allowedMethods(conf, method, path))}

\* stageAfter consulting the OPTIONS reply before the redirect
stageAfterOptionsFirst(stage) ==
    CASE stage = "router" -> "options"
      [] stage = "options" -> "redirect"
      [] stage = "redirect" -> "notallowed"
      [] OTHER -> "notfound"

\* the members of the router Server() returns, in the order it combines them
stageAfter(stage) ==
    CASE stage = "router" -> "redirect"
      [] stage = "redirect" -> "options"
      [] stage = "options" -> "notallowed"
      [] OTHER -> "notfound"

\* cleanPath of src/mux/mux.go: p[i] of the source is at(p, i)
at(s, i) == s[i + 1]

\* a byte of make([]byte, n) not written yet
ZeroByte == "0"
NilBuf == <<>>

\* bufApp that allocates the buffer and does not copy s[:w] into it
bufAppNoCopy(buf, s, w, c) ==
    IF buf = NilBuf
    THEN IF at(s, w) = c THEN buf
         ELSE [k \in 1..Len(s) |-> IF k = w + 1 THEN c ELSE ZeroByte]
    ELSE [buf EXCEPT ![w + 1] = c]

\* bufApp(&buf, s, w, c): the buffer is created when the byte to write is
\* not the byte s has there
bufApp(buf, s, w, c) ==
    IF buf = NilBuf
    THEN IF at(s, w) = c THEN buf
         ELSE [k \in 1..Len(s) |-> IF k = w + 1 THEN c ELSE IF k <= w THEN s[k] ELSE ZeroByte]
    ELSE [buf EXCEPT ![w + 1] = c]

\* the loops of the .. element: w-- while w > 1 and the byte written at w
\* is no '/'
RECURSIVE backtrack(_, _, _)
backtrack(p, buf, w) ==
    IF w > 1 /\ at(IF buf = NilBuf THEN p ELSE buf, w) # Slash
    THEN backtrack(p, buf, w - 1)
    ELSE w

\* copy element: for r < n && p[r] != '/'
RECURSIVE copyElement(_, _)
copyElement(p, st) ==
    IF st.r < Len(p) /\ at(p, st.r) # Slash
    THEN copyElement(p, [st EXCEPT !.buf = bufApp(st.buf, p, st.w, at(p, st.r)),
                                   !.w = st.w + 1, !.r = st.r + 1])
    ELSE st

\* one turn of the loop for r < n: the switch
cleanStep(p, st) ==
    LET n == Len(p)
        r == st.r
    IN  IF at(p, r) = Slash
        THEN [st EXCEPT !.r = r + 1]
        ELSE IF at(p, r) = "." /\ r + 1 = n
        THEN [st EXCEPT !.trailing = TRUE, !.r = r + 1]
        ELSE IF at(p, r) = "." /\ at(p, r + 1) = Slash
        THEN [st EXCEPT !.r = r + 1]
        ELSE IF at(p, r) = "." /\ at(p, r + 1) = "." /\ (r + 2 = n \/ at(p, r + 2) = Slash)
        THEN [st EXCEPT !.r = r + 2,
                        !.w = IF st.w > 1 THEN backtrack(p, st.buf, st.w - 1) ELSE st.w]
        ELSE copyElement(p, IF st.w > 1
                            THEN [st EXCEPT !.buf = bufApp(st.buf, p, st.w, Slash), !.w = st.w + 1]
                            ELSE st)

RECURSIVE cleanLoop(_, _)
cleanLoop(p, st) == IF st.r < Len(p) THEN cleanLoop(p, cleanStep(p, st)) ELSE st

\* cleanPath(p)
cleanPath(p) ==
    IF p = <<>> THEN <<Slash>>
    ELSE LET n == Len(p)
             rooted == at(p, 0) = Slash
             start == [r |-> IF rooted THEN 1 ELSE 0,
                       w |-> 1,
                       buf |-> IF rooted THEN NilBuf
                               ELSE [k \in 1..(n + 1) |-> IF k = 1 THEN Slash ELSE ZeroByte],
                       trailing |-> n > 2 /\ at(p, n - 1) = Slash]
             looped == cleanLoop(p, start)
             fin == IF looped.trailing /\ looped.w > 1
                    THEN [looped EXCEPT !.buf = bufApp(looped.buf, p, looped.w, Slash),
                                        !.w = looped.w + 1]
                    ELSE looped
         IN  IF fin.buf = NilBuf THEN SubSeq(p, 1, fin.w) ELSE SubSeq(fin.buf, 1, fin.w)

\* the paths cleanPath is given: every string of these bytes up to MaxCleanLen
CleanBytes == {Slash, ".", "a", "b"}
CleanInputs == UNION {[1..n -> CleanBytes] : n \in 0..MaxCleanLen}

\* no call of cleanPath
NoClean == [pc |-> "idle", p |-> <<>>, out |-> <<>>, of |-> <<>>]

\* src/mux/mux.go: the routes Method registers and the routers optimize
\* makes of them

\* &route{path, h}
RouteOf(path, h) == [path |-> path, h |-> h]

OptParam == <<"/", "x", "/", ":", "p">>
OptStatic == <<"/", "x", "/", "y">>
OptCatchAll == <<"/", "x", "/", "*", "q">>
OptOther == <<"/", "z">>

\* the registrations of one method: up to three of these routes, in any
\* order; /x/y is there with two handlers
OptRoutes ==
    { RouteOf(OptParam, 1), RouteOf(OptStatic, 2), RouteOf(OptCatchAll, 3),
      RouteOf(OptOther, 4), RouteOf(OptStatic, 5) }
OptPacks ==
    {pk \in UNION {[1..n -> OptRoutes] : n \in 1..3} :
        \A j, k \in 1..Len(pk) : pk[j] = pk[k] => j = k}

\* m.routes: GET has the pack, POST one dynamic route of its own
OptTables == {[m \in {"GET", "POST"} |-> IF m = "GET" THEN pk ELSE <<RouteOf(OptParam, 9)>>] :
                 pk \in OptPacks}
OptMethods == {"GET", "POST", "DELETE"}
OptPaths ==
    { OptStatic, <<"/", "x", "/", "w">>, OptOther, <<"/", "x", "/", "y", "/", "w">>,
      <<"/", "q">> }

\* strings.IndexAny(route.path, ":*") == -1
markerFree(rt) == IndexAny(rt.path, Markers) = -1

\* static[route.path] = route.h over the pack in order: a later route of
\* the same path replaces the earlier one
staticTable(pack) ==
    LET at0(path) == {k \in 1..Len(pack) : markerFree(pack[k]) /\ pack[k].path = path}
        last(path) == CHOOSE k \in at0(path) : \A j \in at0(path) : j <= k
    IN  [path \in {pack[k].path : k \in {j \in 1..Len(pack) : markerFree(pack[j])}} |->
            pack[last(path)].h]

\* dynamic = append(dynamic, fastroute.Route(route.path, route.h))
dynamicRouters(pack) ==
    LET dyn == SelectSeq(pack, LAMBDA rt : ~markerFree(rt))
    IN  [k \in 1..Len(dyn) |-> Route(dyn[k].path, dyn[k].h, "HandlerFunc").route]

\* optimize(): method -> the static table and the dynamic routers
optimize(table) ==
    [m \in DOMAIN table |->
        [static |-> staticTable(table[m]), dynamic |-> dynamicRouters(table[m])]]

\* fastroute.New(dynamic...).Match: the handler of the first router that
\* matches, 0 for nil
RECURSIVE firstMatch(_, _, _)
firstMatch(routers, k, path) ==
    IF k > Len(routers) THEN 0
    ELSE IF routerGoMatch(routers[k], path).ok THEN routers[k].h
    ELSE firstMatch(routers, k + 1, path)

\* lookup that consults the dynamic routers before the static table
lookupDynamicFirst(opt, path) ==
    LET h == IF Len(opt.dynamic) > 0 THEN firstMatch(opt.dynamic, 1, path) ELSE 0
    IN  IF h # 0 THEN h
        ELSE IF path \in DOMAIN opt.static THEN opt.static[path] ELSE 0

\* routes[method].Match(req): the static router when there is a static
\* route, then the router of the dynamic routes when there is one
lookup(opt, path) ==
    LET h == IF DOMAIN opt.static # {} /\ path \in DOMAIN opt.static
             THEN opt.static[path] ELSE 0
    IN  IF h # 0 THEN h
        ELSE IF Len(opt.dynamic) > 0 THEN firstMatch(opt.dynamic, 1, path) ELSE 0

\* the Mux with the buffers of its routes. A state of the pools and of one
\* request: [bufs, pool, body]; the pool of the k-th route of a method is
\* that of the buffers <<<<method, k>>, n>>

\* pool.Get() of route i when one goroutine serves: the buffer lying in the
\* pool, or a new one from pool.New
getFrom(st, i) ==
    LET pooled == {b \in DOMAIN st.bufs : b[1] = i /\ st.pool[b] > 0}
        new == <<i, Cardinality({b \in DOMAIN st.bufs : b[1] = i}) + 1>>
    IN  IF pooled # {}
        THEN LET b == CHOOSE c \in pooled : TRUE
             IN  [b |-> b, st |-> [st EXCEPT !.pool = poolTake(st.pool, b)]]
        ELSE [b |-> new,
              st |-> [st EXCEPT !.bufs = @ @@ (new :> [params |-> <<>>, rc |-> OrigBody]),
                                !.pool = @ @@ (new :> 0)]]

\* Match of one route on a request: the static router compares; the dynamic
\* one takes a buffer, matches into it, and attaches it or puts it back
memberRoute(rt, i, path, folded, st) ==
    IF rt.kind = "static"
    THEN [ok |-> routeMatch(rt, path, folded).ok, st |-> st]
    ELSE LET g == getFrom(st, i)
             m == routeMatch(rt, path, folded)
         IN  IF m.ok
             THEN [ok |-> TRUE,
                   st |-> [bufs |-> [g.st.bufs EXCEPT ![g.b] =
                                        [params |-> @.params \o m.ps, rc |-> st.body]],
                           pool |-> g.st.pool,
                           body |-> g.b]]
             ELSE LET rl == release(g.st.bufs, g.st.pool, g.b)
                  IN  [ok |-> FALSE,
                       st |-> [bufs |-> rl.bufs, pool |-> rl.pool, body |-> st.body]]

\* Match of a method's router, the routes chained in the order registered
RECURSIVE chainRoute(_, _, _, _, _, _)
chainRoute(rts, method, k, path, folded, st) ==
    IF k > Len(rts) THEN [ok |-> FALSE, st |-> st]
    ELSE LET r == memberRoute(rts[k], <<method, k>>, path, folded, st)
         IN  IF r.ok THEN r ELSE chainRoute(rts, method, k + 1, path, folded, r.st)

\* recycle that leaves the request as it is
recycleNever(st) == st

\* Recycle(req): the *parameters found as the Body is reset
recycle(st) ==
    IF isParameters(st.body)
    THEN LET rs == reset(st.bufs, st.pool, st.body)
         IN  [bufs |-> rs.bufs, pool |-> rs.pool, body |-> rs.body]
    ELSE st

\* the loop over the attempts of the redirecting router, on the request try;
\* a hit is recycled when the router returns (defer fastroute.Recycle(try))
RECURSIVE tryEffect(_, _, _, _, _)
tryEffect(conf, method, attempts, folded, st) ==
    IF Len(attempts) = 0 THEN st
    ELSE LET r == chainRoute(routersOf(conf, method), method, 1, Head(attempts), folded, st)
         IN  IF r.ok THEN recycle(r.st)
             ELSE tryEffect(conf, method, Tail(attempts), folded, r.st)

\* what the second member of the server does to the pools and the request
redirectEffect(conf, method, path, st) ==
    IF ~redirectEnabled(conf)
    THEN chainRoute(routersOf(conf, method), method, 1, path, FALSE, st).st
    ELSE LET p == IF conf.RedirectFixedPath THEN Clean(path) ELSE path
             attempts == <<p>> \o (IF conf.RedirectTrailingSlash THEN <<toggleSlash(p)>> ELSE <<>>)
             try == tryEffect(conf, method, attempts, conf.RedirectFixedPath,
                              [st EXCEPT !.body = OrigBody])
         IN  [bufs |-> try.bufs, pool |-> try.pool, body |-> st.body]

\* allowed(req) on the pools and the request: every other method's router
\* is matched, and a hit recycled, unless the path is *
RECURSIVE allowedEffect(_, _, _, _, _)
allowedEffect(conf, method, path, ms, st) ==
    IF Len(ms) = 0 THEN st
    ELSE LET m == Head(ms)
             r == chainRoute(routersOf(conf, m), m, 1, path, FALSE, st)
             after == IF m = method \/ path = <<"*">> THEN st
                      ELSE IF r.ok THEN recycle(r.st) ELSE r.st
         IN  allowedEffect(conf, method, path, Tail(ms), after)

\* m.routes ranged over in some order
someOrder(S) == CHOOSE s \in orders(S) : TRUE

NoOutcome == [kind |-> "none", code |-> 0, to |-> <<>>, allow |-> <<>>, custom |-> FALSE]
Outcome(kind, code) == [NoOutcome EXCEPT !.kind = kind, !.code = code]

\* the state of the Mux: no Mux in the specifications of fastroute alone
NoMux == [conf |-> <<>>, method |-> "", path |-> <<>>, stage |-> "off", out |-> NoOutcome]

----------------------------------------------------------------------------
\* Actions

compile(pats) == [i \in 1..Len(pats) |-> New(pats[i], i, "func").route]

Init ==
    /\ routes \in {compile(c) : c \in ChainConfigs}
    /\ regErr = NoPanic
    /\ newArgs = NoArgs
    /\ bufs = [b \in {} |-> 0]
    /\ pool = [b \in {} |-> 0]
    /\ req = [r \in Reqs |-> FreshReq]
    /\ mux = NoMux
    /\ clean = NoClean

\* Route has returned to the caller: with a handler (routed), with nil, and
\* what the caller did since: served the handler, called Recycle once, twice
Resting(r) == req[r].pc \in {"routed", "nil", "served", "recycled", "recycled2", "notfound"}

\* a new *http.Request is routed
Begin(r, paths) ==
    /\ req[r].pc = "idle"
    /\ Len(routes) > 0
    /\ \E path \in paths : req' = [req EXCEPT ![r] = [FreshReq EXCEPT !.path = path, !.pc = "routing", !.idx = 1]]
    /\ UNCHANGED <<clean, mux, routes, regErr, newArgs, bufs, pool>>

\* ServeHTTP(w, req) of the router is called with a new *http.Request
BeginServe(r, paths) ==
    /\ req[r].pc = "idle"
    /\ Len(routes) > 0
    /\ \E path \in paths :
         req' = [req EXCEPT ![r] = [FreshReq EXCEPT !.path = path, !.pc = "routing", !.idx = 1,
                                                    !.call = "ServeHTTP"]]
    /\ UNCHANGED <<clean, mux, routes, regErr, newArgs, bufs, pool>>

\* the caller routes a request again, as it is (with what is attached to it)
ReRoute(r, paths) ==
    /\ Resting(r)
    /\ \E path \in paths : req' = [req EXCEPT ![r].path = path, ![r].pc = "routing", ![r].idx = 1,
                          ![r].h = 0]
    /\ UNCHANGED <<clean, mux, routes, regErr, newArgs, bufs, pool>>

\* Chain consults member idx: a static router answers at once
RouteStatic(r) ==
    /\ req[r].pc = "routing"
    /\ member(req[r].idx).kind = "static"
    /\ LET hit == staticMatch(member(req[r].idx).p, req[r].path)
           nx == served(req[r].call, chainAfter(hit, req[r].idx, Len(routes)))
       IN  req' = [req EXCEPT ![r].pc = nx.pc, ![r].idx = nx.idx,
                              ![r].h = IF hit THEN req[r].idx ELSE @]
    /\ UNCHANGED <<clean, mux, routes, regErr, newArgs, bufs, pool>>

\* Chain consults member idx: a RouterFunc whose function returns nil
RouteNone(r) ==
    /\ req[r].pc = "routing"
    /\ member(req[r].idx).kind = "none"
    /\ LET nx == served(req[r].call, chainAfter(FALSE, req[r].idx, Len(routes)))
       IN  req' = [req EXCEPT ![r].pc = nx.pc, ![r].idx = nx.idx]
    /\ UNCHANGED <<clean, mux, routes, regErr, newArgs, bufs, pool>>

\* Chain consults member idx: a dynamic router takes a buffer, ps := pool.Get()
RouteGet(r) ==
    /\ req[r].pc = "routing"
    /\ member(req[r].idx).kind = "dynamic"
    /\ LET i == req[r].idx IN
       \/ \E b \in pooledOf(i) :
            /\ pool' = poolTake(pool, b)
            /\ bufs' = bufs
            /\ req' = [req EXCEPT ![r].pc = "matching", ![r].held = b]
       \/ /\ newIds(i) # {}
          /\ bufs' = bufs @@ (nextNew(i) :> [params |-> <<>>, rc |-> OrigBody])
          /\ pool' = pool @@ (nextNew(i) :> 0)
          /\ req' = [req EXCEPT ![r].pc = "matching", ![r].held = nextNew(i)]
    /\ UNCHANGED <<clean, mux, routes, regErr, newArgs>>

\* the dynamic router matches with the buffer it holds, attaches it or puts
\* it back; Chain goes on
RouteMatch(r) ==
    /\ req[r].pc = "matching"
    /\ LET i == req[r].idx
           b == req[r].held
           rt == member(i)
           m == match(rt.segments, req[r].path, bufs[b].params, rt.num, rt.ts)
           nx == served(req[r].call, chainAfter(m.ok, i, Len(routes)))
       IN  IF m.panic # NoPanic
           THEN /\ req' = [req EXCEPT ![r].pc = "panicked"]
                /\ bufs' = [bufs EXCEPT ![b].params = m.ps]
                /\ pool' = pool
           ELSE IF m.ok
           THEN /\ bufs' = [bufs EXCEPT ![b] = [params |-> m.ps, rc |-> req[r].body]]
                /\ pool' = pool
                /\ req' = [req EXCEPT ![r].body = b, ![r].held = NoBuf, ![r].h = i,
                                      ![r].pc = nx.pc, ![r].idx = nx.idx]
           ELSE LET rl == release([bufs EXCEPT ![b].params = m.ps], pool, b)
                IN  /\ bufs' = rl.bufs
                    /\ pool' = rl.pool
                    /\ req' = [req EXCEPT ![r].held = NoBuf,
                                          ![r].pc = nx.pc, ![r].idx = nx.idx]
    /\ UNCHANGED <<clean, mux, routes, regErr, newArgs>>

\* the handler Route returned is invoked: the user's handler runs
Serve(r) ==
    /\ req[r].pc = "routed"
    /\ req' = [req EXCEPT ![r].pc = "serving"]
    /\ UNCHANGED <<clean, mux, routes, regErr, newArgs, bufs, pool>>

\* the user's handler returns; the handle of a dynamic route then resets
\* the *parameters it finds as req.Body
HandlerDone(r) ==
    /\ req[r].pc = "serving"
    /\ IF member(req[r].h).kind = "dynamic" /\ isParameters(req[r].body)
       THEN LET rs == reset(bufs, pool, req[r].body)
            IN  /\ bufs' = rs.bufs
                /\ pool' = rs.pool
                /\ req' = [req EXCEPT ![r].pc = "served", ![r].body = rs.body]
       ELSE /\ req' = [req EXCEPT ![r].pc = "served"]
            /\ UNCHANGED <<bufs, pool>>
    /\ UNCHANGED <<clean, mux, routes, regErr, newArgs>>

\* Recycle(req), called by the caller of Route: a first and a second time
Recycle(r) ==
    /\ Resting(r)
    /\ req[r].pc # "recycled2"
    /\ LET pc2 == IF req[r].pc = "recycled" THEN "recycled2" ELSE "recycled"
       IN  IF isParameters(req[r].body)
           THEN LET rs == reset(bufs, pool, req[r].body)
                IN  /\ bufs' = rs.bufs
                    /\ pool' = rs.pool
                    /\ req' = [req EXCEPT ![r].pc = pc2, ![r].body = rs.body]
           ELSE /\ req' = [req EXCEPT ![r].pc = pc2]
                /\ UNCHANGED <<bufs, pool>>
    /\ UNCHANGED <<clean, mux, routes, regErr, newArgs>>

\* the buffers reachable from a request: the one its matcher holds and the
\* chain of ReadClosers from its Body
RECURSIVE bodyChain(_)
bodyChain(body) == IF isParameters(body) THEN {body} \cup bodyChain(bufs[body].rc) ELSE {}
attachedTo(r) == bodyChain(req[r].body) \cup (IF req[r].held # NoBuf THEN {req[r].held} ELSE {})

\* the caller lets go of the request object (after a panic: the server
\* recovers and the request ends); buffers only it referenced are garbage
Drop(r) ==
    /\ Resting(r) \/ req[r].pc = "panicked"
    /\ req' = [req EXCEPT ![r] = FreshReq]
    /\ LET keep == DOMAIN bufs \ attachedTo(r)
       IN  /\ bufs' = [b \in keep |-> bufs[b]]
           /\ pool' = [b \in keep |-> pool[b]]
    /\ UNCHANGED <<clean, mux, routes, regErr, newArgs>>

\* setup: a router is built by New, alone, with its own empty pool
Register(paths) ==
    /\ routes = <<>>
    /\ regErr = NoPanic
    /\ \A r \in Reqs : req[r].pc = "idle"
    /\ \E path \in paths, hkind \in HandlerKinds :
         LET n == New(path, 1, hkind)
         IN  /\ regErr' = n.err
             /\ newArgs' = [path |-> path, hkind |-> hkind]
             /\ routes' = IF n.err = NoPanic THEN <<n.route>> ELSE <<>>
    /\ bufs' = [b \in {} |-> 0]
    /\ pool' = [b \in {} |-> 0]
    /\ UNCHANGED <<clean, mux, req>>

Next ==
    \E r \in Reqs :
        \/ Begin(r, LifePaths)
        \/ ReRoute(r, LifePaths)
        \/ RouteStatic(r)
        \/ RouteGet(r)
        \/ RouteMatch(r)
        \/ Serve(r)
        \/ HandlerDone(r)
        \/ Recycle(r)
        \/ Drop(r)

Spec == Init /\ [][Next]_vars

\* one router, one request at a time, every pattern and path of the input sets
InitMatch ==
    /\ routes = <<>>
    /\ regErr = NoPanic
    /\ newArgs = NoArgs
    /\ bufs = [b \in {} |-> 0]
    /\ pool = [b \in {} |-> 0]
    /\ req = [r \in Reqs |-> FreshReq]
    /\ mux = NoMux
    /\ clean = NoClean

NextMatch ==
    \/ Register(PatternSet)
    \/ Begin("r1", PathSet)
    \/ RouteStatic("r1")
    \/ RouteGet("r1")
    \/ RouteMatch("r1")
    \/ Serve("r1")
    \/ HandlerDone("r1")
    \/ Recycle("r1")
    \/ Drop("r1")

MatchSpec == InitMatch /\ [][NextMatch]_vars

\* a chain of two dynamic routers, one of two parameters, and a static one
\* (TestDynamicRouteMatcher: /users/:id/:bid/ with names shortened)
PoolConfigs == { <<PatUsers, PatUserId, PatUserNew>> }
PoolPaths ==
    { <<"/", "u", "/", "a", "/", "b", "/">>, <<"/", "u", "/", "5">>,
      <<"/", "u", "/", "n">>, <<"/", "u", "/", "5", "/">> }

InitPool ==
    /\ routes \in {compile(c) : c \in PoolConfigs}
    /\ regErr = NoPanic
    /\ newArgs = NoArgs
    /\ bufs = [b \in {} |-> 0]
    /\ pool = [b \in {} |-> 0]
    /\ req = [r \in Reqs |-> FreshReq]
    /\ mux = NoMux
    /\ clean = NoClean

NextPool ==
    \E r \in Reqs :
        \/ Begin(r, PoolPaths)
        \/ RouteStatic(r)
        \/ RouteGet(r)
        \/ RouteMatch(r)
        \/ Serve(r)
        \/ HandlerDone(r)
        \/ Recycle(r)
        \/ Drop(r)

PoolSpec == InitPool /\ [][NextPool]_vars

\* the routers served in TestShouldRouteRouterAsHandler and
\* TestShouldFallbackToNotFoundHandler: a router of New, a RouterFunc
\* returning a router of New or nil, alone and chained with a router of New
ServeConfigs ==
    { <<New(PatUserId, 1, "func").route>>,
      <<New(PatUserNew, 1, "func").route>>,
      <<Returning(New(PatUserId, 1, "func").route)>>,
      <<Returning(New(PatUserNew, 1, "func").route), New(PatUserId, 2, "func").route>>,
      <<Returning(New(PatUserId, 1, "func").route), New(PatUserNew, 2, "func").route>>,
      <<Returning(NoRoute), New(PatUserNew, 2, "func").route>> }

InitServe ==
    /\ routes \in ServeConfigs
    /\ regErr = NoPanic
    /\ newArgs = NoArgs
    /\ bufs = [b \in {} |-> 0]
    /\ pool = [b \in {} |-> 0]
    /\ req = [r \in Reqs |-> FreshReq]
    /\ mux = NoMux
    /\ clean = NoClean

\* one request at a time, through Route or through ServeHTTP
NextServe ==
    \/ Begin("r1", LifePaths)
    \/ BeginServe("r1", LifePaths)
    \/ RouteStatic("r1")
    \/ RouteNone("r1")
    \/ RouteGet("r1")
    \/ RouteMatch("r1")
    \/ Serve("r1")
    \/ HandlerDone("r1")
    \/ Recycle("r1")
    \/ Drop("r1")

ServeSpec == InitServe /\ [][NextServe]_vars

----------------------------------------------------------------------------
\* Actions of the Mux

\* a request arrives at Server().ServeHTTP
MuxRequest ==
    /\ mux.stage = "idle"
    /\ \E method \in Methods, path \in MuxPaths :
         mux' = [mux EXCEPT !.method = method, !.path = path, !.stage = "router",
                            !.out = NoOutcome]
    /\ UNCHANGED <<clean, fastrouteVars>>

\* first member: the routes of the request's method; a hit is served
MuxRoute ==
    /\ mux.stage = "router"
    /\ IF methodMatch(mux.conf, mux.method, mux.path).ok
       THEN mux' = [mux EXCEPT !.stage = "done", !.out = Outcome("SERVE", 200)]
       ELSE mux' = [mux EXCEPT !.stage = stageAfter(mux.stage)]
    /\ UNCHANGED <<clean, fastrouteVars>>

\* second member: redirect(fixed path), http.StatusMovedPermanently
MuxRedirect ==
    /\ mux.stage = "redirect"
    /\ LET r == redirectTrailingOrFixedPath(mux.conf, mux.method, mux.path)
       IN  IF r.serve
           THEN mux' = [mux EXCEPT !.stage = "done", !.out = Outcome("SERVE", 200)]
           ELSE IF r.fix.hit
           THEN mux' = [mux EXCEPT !.stage = "done",
                                   !.out = [Outcome("REDIRECT", 301) EXCEPT !.to = r.fix.to]]
           ELSE mux' = [mux EXCEPT !.stage = stageAfter(mux.stage)]
    /\ UNCHANGED <<clean, fastrouteVars>>

\* third member: autoOptions
MuxAutoOptions ==
    /\ mux.stage = "options"
    /\ IF mux.method # "OPTIONS" \/ ~mux.conf.AutoOptionsReply
       THEN mux' = [mux EXCEPT !.stage = stageAfter(mux.stage)]
       ELSE \E allow \in allowed(mux.conf, mux.method, mux.path) :
              IF Len(allow) > 0
              THEN mux' = [mux EXCEPT !.stage = "done",
                                      !.out = [Outcome("OPTIONS", 200) EXCEPT !.allow = allow]]
              ELSE mux' = [mux EXCEPT !.stage = stageAfter(mux.stage)]
    /\ UNCHANGED <<clean, fastrouteVars>>

\* fourth member: handleMethodNotAllowed; the handler set writes the status
MuxMethodNotAllowed ==
    /\ mux.stage = "notallowed"
    /\ IF ~mux.conf.MethodNotAllowed
       THEN mux' = [mux EXCEPT !.stage = stageAfter(mux.stage)]
       ELSE \E allow \in allowed(mux.conf, mux.method, mux.path) :
              IF Len(allow) > 0
              THEN mux' = [mux EXCEPT !.stage = "done",
                                      !.out = [Outcome("NOTALLOWED", 405) EXCEPT !.allow = allow]]
              ELSE mux' = [mux EXCEPT !.stage = stageAfter(mux.stage)]
    /\ UNCHANGED <<clean, fastrouteVars>>

\* fifth member: m.NotFound, or nil and ServeHTTP falls back to http.NotFound
MuxNotFound ==
    /\ mux.stage = "notfound"
    /\ mux' = [mux EXCEPT !.stage = "done",
                          !.out = [Outcome("NOTFOUND", 404) EXCEPT !.custom = mux.conf.NotFound]]
    /\ UNCHANGED <<clean, fastrouteVars>>

\* the response is written; the server takes the next request
MuxDone ==
    /\ mux.stage = "done"
    /\ mux' = [NoMux EXCEPT !.conf = mux.conf, !.stage = "idle"]
    /\ UNCHANGED <<clean, fastrouteVars>>

InitMux ==
    /\ routes = <<>>
    /\ regErr = NoPanic
    /\ newArgs = NoArgs
    /\ bufs = [b \in {} |-> 0]
    /\ pool = [b \in {} |-> 0]
    /\ req = [r \in Reqs |-> FreshReq]
    /\ \E conf \in MuxConfs : mux = [NoMux EXCEPT !.conf = conf, !.stage = "idle"]
    /\ clean = NoClean

NextMux ==
    \/ MuxRequest
    \/ MuxRoute
    \/ MuxRedirect
    \/ MuxAutoOptions
    \/ MuxMethodNotAllowed
    \/ MuxNotFound
    \/ MuxDone

MuxSpec == InitMux /\ [][NextMux]_vars

----------------------------------------------------------------------------
\* Actions of the Mux with the buffers of its routes: r1 is the request
\* served, its Body is req["r1"].body

poolState == [bufs |-> bufs, pool |-> pool, body |-> req["r1"].body]
setPoolState(st) ==
    /\ bufs' = st.bufs
    /\ pool' = st.pool
    /\ req' = [req EXCEPT !["r1"].body = st.body]

\* a request arrives at Server().ServeHTTP
BufRequest ==
    /\ mux.stage = "idle"
    /\ \E method \in Methods, path \in MuxPaths :
         /\ mux' = [mux EXCEPT !.method = method, !.path = path, !.stage = "router",
                               !.out = NoOutcome]
         /\ req' = [req EXCEPT !["r1"] = [FreshReq EXCEPT !.path = path, !.pc = "routing"]]
    /\ UNCHANGED <<clean, routes, regErr, newArgs, bufs, pool>>

\* first member: the routes of the request's method are matched on it
BufRoute ==
    /\ mux.stage = "router"
    /\ LET r == chainRoute(routersOf(mux.conf, mux.method), mux.method, 1, mux.path, FALSE,
                           poolState)
       IN  /\ setPoolState(r.st)
           /\ mux' = [mux EXCEPT !.stage = IF r.ok THEN "serving" ELSE stageAfter(mux.stage)]
    /\ UNCHANGED <<clean, routes, regErr, newArgs>>

\* the handler matched is served: when it returns, handle resets the
\* *parameters it finds as the Body
BufServed ==
    /\ mux.stage = "serving"
    /\ setPoolState(recycle(poolState))
    /\ mux' = [mux EXCEPT !.stage = "done", !.out = Outcome("SERVE", 200)]
    /\ UNCHANGED <<clean, routes, regErr, newArgs>>

\* second member: the attempts are matched on the request try
BufRedirect ==
    /\ mux.stage = "redirect"
    /\ LET r == redirectTrailingOrFixedPath(mux.conf, mux.method, mux.path)
       IN  /\ setPoolState(redirectEffect(mux.conf, mux.method, mux.path, poolState))
           /\ IF r.serve
              THEN mux' = [mux EXCEPT !.stage = "serving"]
              ELSE IF r.fix.hit
              THEN mux' = [mux EXCEPT !.stage = "done",
                                      !.out = [Outcome("REDIRECT", 301) EXCEPT !.to = r.fix.to]]
              ELSE mux' = [mux EXCEPT !.stage = stageAfter(mux.stage)]
    /\ UNCHANGED <<clean, routes, regErr, newArgs>>

\* third member: autoOptions, which calls allowed when the request is OPTIONS
BufAutoOptions ==
    /\ mux.stage = "options"
    /\ IF mux.method # "OPTIONS" \/ ~mux.conf.AutoOptionsReply
       THEN /\ mux' = [mux EXCEPT !.stage = stageAfter(mux.stage)]
            /\ UNCHANGED <<bufs, pool, req>>
       ELSE /\ setPoolState(allowedEffect(mux.conf, mux.method, mux.path,
                                          someOrder(DOMAIN mux.conf.routes), poolState))
            /\ \E allow \in allowed(mux.conf, mux.method, mux.path) :
                 IF Len(allow) > 0
                 THEN mux' = [mux EXCEPT !.stage = "done",
                                         !.out = [Outcome("OPTIONS", 200) EXCEPT !.allow = allow]]
                 ELSE mux' = [mux EXCEPT !.stage = stageAfter(mux.stage)]
    /\ UNCHANGED <<clean, routes, regErr, newArgs>>

\* fourth member: handleMethodNotAllowed, which calls allowed when the
\* handler is set
BufMethodNotAllowed ==
    /\ mux.stage = "notallowed"
    /\ IF ~mux.conf.MethodNotAllowed
       THEN /\ mux' = [mux EXCEPT !.stage = stageAfter(mux.stage)]
            /\ UNCHANGED <<bufs, pool, req>>
       ELSE /\ setPoolState(allowedEffect(mux.conf, mux.method, mux.path,
                                          someOrder(DOMAIN mux.conf.routes), poolState))
            /\ \E allow \in allowed(mux.conf, mux.method, mux.path) :
                 IF Len(allow) > 0
                 THEN mux' = [mux EXCEPT !.stage = "done",
                                         !.out = [Outcome("NOTALLOWED", 405) EXCEPT !.allow = allow]]
                 ELSE mux' = [mux EXCEPT !.stage = stageAfter(mux.stage)]
    /\ UNCHANGED <<clean, routes, regErr, newArgs>>

\* fifth member: m.NotFound, or the default not found handler
BufNotFound ==
    /\ mux.stage = "notfound"
    /\ mux' = [mux EXCEPT !.stage = "done",
                          !.out = [Outcome("NOTFOUND", 404) EXCEPT !.custom = mux.conf.NotFound]]
    /\ UNCHANGED <<clean, fastrouteVars>>

\* ServeHTTP has returned; the server takes the next request
BufDone ==
    /\ mux.stage = "done"
    /\ req["r1"].body = OrigBody
    /\ mux' = [NoMux EXCEPT !.conf = mux.conf, !.stage = "idle"]
    /\ req' = [req EXCEPT !["r1"] = FreshReq]
    /\ UNCHANGED <<clean, routes, regErr, newArgs, bufs, pool>>

NextMuxPool ==
    \/ BufRequest
    \/ BufRoute
    \/ BufServed
    \/ BufRedirect
    \/ BufAutoOptions
    \/ BufMethodNotAllowed
    \/ BufNotFound
    \/ BufDone

MuxPoolSpec == InitMux /\ [][NextMuxPool]_vars

----------------------------------------------------------------------------
\* Calls of cleanPath

\* cleanPath(p) is called and returns
CleanCall ==
    /\ clean.pc = "idle"
    /\ \E p \in CleanInputs :
         clean' = [pc |-> "cleaned", p |-> p, out |-> cleanPath(p), of |-> p]
    /\ UNCHANGED <<fastrouteVars, mux>>

\* cleanPath is called with the path it returned (TestPathClean)
CleanAgain ==
    /\ clean.pc = "cleaned"
    /\ clean' = [pc |-> "recleaned", p |-> clean.out, out |-> cleanPath(clean.out),
                 of |-> clean.of]
    /\ UNCHANGED <<fastrouteVars, mux>>

\* the caller is done with the result
CleanDone ==
    /\ clean.pc \in {"cleaned", "recleaned"}
    /\ clean' = NoClean
    /\ UNCHANGED <<fastrouteVars, mux>>

InitClean ==
    /\ routes = <<>>
    /\ regErr = NoPanic
    /\ newArgs = NoArgs
    /\ bufs = [b \in {} |-> 0]
    /\ pool = [b \in {} |-> 0]
    /\ req = [r \in Reqs |-> FreshReq]
    /\ mux = NoMux
    /\ clean = NoClean

NextClean ==
    \/ CleanCall
    \/ CleanAgain
    \/ CleanDone

CleanSpec == InitClean /\ [][NextClean]_vars

----------------------------------------------------------------------------
\* The server of src/mux/mux.go: its first member, the optimized routes

\* a request arrives
OptRequest ==
    /\ mux.stage = "idle"
    /\ \E method \in OptMethods, path \in OptPaths :
         mux' = [mux EXCEPT !.method = method, !.path = path, !.stage = "router"]
    /\ UNCHANGED <<clean, fastrouteVars>>

\* router := routes[req.Method]; router.Match(req): the handler served, 0
\* when the member returns nil and the members after it are consulted
OptMatch ==
    /\ mux.stage = "router"
    /\ LET routes0 == optimize(mux.conf.routes)
           h == IF mux.method \in DOMAIN routes0 THEN lookup(routes0[mux.method], mux.path) ELSE 0
       IN  mux' = [mux EXCEPT !.stage = "done", !.h = h]
    /\ UNCHANGED <<clean, fastrouteVars>>

\* the request is answered; the server takes the next
OptDone ==
    /\ mux.stage = "done"
    /\ mux' = [mux EXCEPT !.method = "", !.path = <<>>, !.stage = "idle", !.h = 0]
    /\ UNCHANGED <<clean, fastrouteVars>>

InitOpt ==
    /\ routes = <<>>
    /\ regErr = NoPanic
    /\ newArgs = NoArgs
    /\ bufs = [b \in {} |-> 0]
    /\ pool = [b \in {} |-> 0]
    /\ req = [r \in Reqs |-> FreshReq]
    /\ clean = NoClean
    /\ \E table \in OptTables :
         mux = [conf |-> [routes |-> table], method |-> "", path |-> <<>>, stage |-> "idle",
                h |-> 0]

NextOpt ==
    \/ OptRequest
    \/ OptMatch
    \/ OptDone

OptSpec == InitOpt /\ [][NextOpt]_vars

----------------------------------------------------------------------------
\* The router of src/router.go: New over routers of Route. Its loop, its
\* static router and its pool.Get are those of Begin, RouteStatic, RouteGet

\* p.params = p.params[0:0]; pool.Put(p): the end of handle and of a failed match
putBack(bf, pl, b) ==
    [bufs |-> [bf EXCEPT ![b].params = <<>>],
     pool |-> poolPut(pl, b)]

\* (p *parameters) wrap(req), after match filled p.params
wrap(bf, b, ps, body) == [bf EXCEPT ![b] = [params |-> ps, rc |-> body]]

\* the routers of TestDynamicRouteMatcher and of the package documentation
RouterConfigs ==
    { <<PatFiles>>, <<PatUserId>>, <<PatUserNew, PatUserId>> }
RouterPaths ==
    { <<"/", "f">>, <<"/", "f", "/">>, <<"/", "f", "/", "a">>,
      <<"/", "f", "/", "a", "/", "b", "/", "c">>,
      <<"/", "u", "/", "n">>, <<"/", "u", "/", "5">>, <<"/", "u", "/", "7">> }

\* the dynamic router matches on the buffer it took: it wraps the request's
\* Body in it, or clears it and puts it back; New's loop goes on
GoRouteMatch(r) ==
    /\ req[r].pc = "matching"
    /\ LET i == req[r].idx
           b == req[r].held
           rt == member(i)
           m == matchSegments(rt.segments, 1, req[r].path, bufs[b].params, rt.num, rt.ts)
           nx == served(req[r].call, chainAfter(m.ok, i, Len(routes)))
       IN  IF m.panic # NoPanic
           THEN /\ req' = [req EXCEPT ![r].pc = "panicked"]
                /\ bufs' = [bufs EXCEPT ![b].params = m.ps]
                /\ pool' = pool
           ELSE IF m.ok
           THEN /\ bufs' = wrap(bufs, b, m.ps, req[r].body)
                /\ pool' = pool
                /\ req' = [req EXCEPT ![r].body = b, ![r].held = NoBuf, ![r].h = i,
                                      ![r].pc = nx.pc, ![r].idx = nx.idx]
           ELSE LET pb == putBack([bufs EXCEPT ![b].params = m.ps], pool, b)
                IN  /\ bufs' = pb.bufs
                    /\ pool' = pb.pool
                    /\ req' = [req EXCEPT ![r].held = NoBuf,
                                          ![r].pc = nx.pc, ![r].idx = nx.idx]
    /\ UNCHANGED <<clean, mux, routes, regErr, newArgs>>

\* handle: the user's handler returns, then the *parameters found as the
\* request's Body is cleared and put into the pool; req.Body is not assigned
GoHandlerDone(r) ==
    /\ req[r].pc = "serving"
    /\ IF member(req[r].h).kind = "dynamic" /\ isParameters(req[r].body)
       THEN LET pb == putBack(bufs, pool, req[r].body)
            IN  /\ bufs' = pb.bufs
                /\ pool' = pb.pool
       ELSE UNCHANGED <<bufs, pool>>
    /\ req' = [req EXCEPT ![r].pc = "served"]
    /\ UNCHANGED <<clean, mux, routes, regErr, newArgs>>

\* the caller lets go of the request object; a buffer only it referenced,
\* lying in no pool, is garbage
GoForget(r) ==
    /\ Resting(r) \/ req[r].pc = "panicked"
    /\ req' = [req EXCEPT ![r] = FreshReq]
    /\ LET others == UNION {attachedTo(o) : o \in Reqs \ {r}}
           keep == {b \in DOMAIN bufs : b \notin attachedTo(r) \/ b \in others \/ pool[b] > 0}
       IN  /\ bufs' = [b \in keep |-> bufs[b]]
           /\ pool' = [b \in keep |-> pool[b]]
    /\ UNCHANGED <<clean, mux, routes, regErr, newArgs>>

InitRouter ==
    /\ routes \in {[i \in 1..Len(c) |-> Route(c[i], i, "func").route] : c \in RouterConfigs}
    /\ regErr = NoPanic
    /\ newArgs = NoArgs
    /\ bufs = [b \in {} |-> 0]
    /\ pool = [b \in {} |-> 0]
    /\ req = [r \in Reqs |-> FreshReq]
    /\ mux = NoMux
    /\ clean = NoClean

NextRouter ==
    \E r \in Reqs :
        \/ Begin(r, RouterPaths)
        \/ RouteStatic(r)
        \/ RouteGet(r)
        \/ GoRouteMatch(r)
        \/ Serve(r)
        \/ GoHandlerDone(r)
        \/ GoForget(r)

RouterSpec == InitRouter /\ [][NextRouter]_vars

----------------------------------------------------------------------------
\* Properties

\* the request of the one-request specification
R1 == "r1"

endsInSlash(s) == Len(s) > 0 /\ s[Len(s)] = Slash
hasCatchAll(p) == \E i \in 1..Len(p) : p[i] = "*"

\* whether a router alone would route a path, on a buffer of its own
routeMatches(rt, path) ==
    IF rt.kind = "static" THEN rt.p = path
    ELSE match(rt.segments, path, <<>>, rt.num, rt.ts).ok

\* the bindings a dynamic router draws from a path
ownBindings(rt, path) == match(rt.segments, path, <<>>, rt.num, rt.ts).ps

\* the parameter names of a compiled pattern, left to right
RECURSIVE paramKeys(_)
paramKeys(segments) ==
    IF segments = <<>> THEN <<>>
    ELSE LET seg == Head(segments)
         IN  (IF Len(seg) > 1 /\ seg[2] \in Markers
              THEN <<SubSeq(seg, 3, Len(seg))>> ELSE <<>>) \o paramKeys(Tail(segments))

\* Route has returned or ended for the request
Routed(r) == req[r].pc = "routed"
Answered(r) == req[r].pc \in {"routed", "nil", "panicked"}

\* C1: no request ends in a runtime panic of the matcher: every pattern
\* New accepted is matched against every path without an error
C1_NoPanicAtRequestTime == \A r \in Reqs : req[r].pc # "panicked"

\* C2: two requests never hold the same buffer (held by their matcher or
\* reachable from their Body), and what a request reads as Parameters while
\* its handler is due or running are the bindings of its own path
C2_BufferNotShared ==
    /\ \A r, q \in Reqs : r # q => attachedTo(r) \cap attachedTo(q) = {}
    /\ \A r \in Reqs :
         (req[r].pc \in {"routed", "serving"} /\ routes[req[r].h].kind = "dynamic")
         => /\ isParameters(req[r].body)
            /\ req[r].body[1] = req[r].h
            /\ Parameters(r) = ownBindings(routes[req[r].h], req[r].path)

C2_Witness ==
    /\ \A r \in Reqs : req[r].pc = "serving" /\ req[r].h = 1
    /\ Len(routes) = 1 /\ routes[1].kind = "dynamic"
    /\ req["r1"].path # req["r2"].path
    /\ req["r1"].body # req["r2"].body

\* the steps of a request: its match attached a buffer; its handler finished
AttachStep(r) == req[r].pc = "matching" /\ req'[r].pc = "routed"
DoneStep(r) ==
    /\ req[r].pc = "serving" /\ req'[r].pc = "served"
    /\ routes[req[r].h].kind = "dynamic"

\* C3 as stated: when the handler of a dynamic match finishes, the buffer is
\* back in the pool with length 0, Parameters(req) is empty and req.Body is
\* the body the request had before the match
C3_AsStated ==
    [][\A r \in Reqs :
         /\ AttachStep(r) => bufs'[req'[r].body].rc = req[r].body
         /\ DoneStep(r) =>
              LET b == req[r].body
              IN  /\ isParameters(b)
                  /\ pool'[b] = pool[b] + 1 /\ pool'[b] = 1
                  /\ bufs'[b].params = <<>>
                  /\ req'[r].body = bufs[b].rc
                  /\ Parameters(r)' = <<>>]_vars

\* C3, amended: as C3_AsStated, with Parameters(req) empty when the body before
\* the match was no binding of an earlier match, and that earlier binding
\* otherwise
C3_ServeReleases ==
    [][\A r \in Reqs :
         /\ AttachStep(r) => bufs'[req'[r].body].rc = req[r].body
         /\ DoneStep(r) =>
              LET b == req[r].body
              IN  /\ isParameters(b)
                  /\ pool'[b] = pool[b] + 1 /\ pool'[b] = 1
                  /\ bufs'[b].params = <<>>
                  /\ req'[r].body = bufs[b].rc
                  /\ ~isParameters(bufs[b].rc) => Parameters(r)' = <<>>
                  /\ isParameters(bufs[b].rc) => Parameters(r)' = bufs[bufs[b].rc].params]_vars

C3_Witness ==
    \E r \in Reqs :
        /\ req[r].pc = "served" /\ routes[req[r].h].kind = "dynamic"
        /\ req[r].body = OrigBody
        /\ \E b \in DOMAIN bufs : b[1] = req[r].h /\ pool[b] = 1 /\ bufs[b].params = <<>>

\* C4: Recycle on a request holding the one buffer of one match puts the
\* buffer into its pool once and restores req.Body; Recycle on the request
\* after that changes neither the pool, nor a buffer, nor the request
C4_RecycleTwice ==
    [][\A r \in Reqs :
         /\ (req[r].pc = "routed" /\ req'[r].pc = "recycled" /\ isParameters(req[r].body)
                /\ bufs[req[r].body].rc = OrigBody)
            => LET b == req[r].body
               IN  /\ pool[b] = 0 /\ pool'[b] = 1
                   /\ bufs'[b].params = <<>>
                   /\ req'[r].body = OrigBody
         /\ (req[r].pc = "recycled" /\ req'[r].pc = "recycled2" /\ ~isParameters(req[r].body))
            => /\ pool' = pool /\ bufs' = bufs
               /\ req'[r].body = req[r].body]_vars

C4_Witness ==
    \E r \in Reqs :
        /\ req[r].pc = "recycled2" /\ req[r].h > 0 /\ routes[req[r].h].kind = "dynamic"
        /\ req[r].body = OrigBody
        /\ \E b \in DOMAIN bufs : b[1] = req[r].h /\ pool[b] = 1

\* C5: a match attempt that fails leaves the buffer it took empty and in the
\* pool, and the request as it was: its path, its Body, and the buffers
\* reachable from its Body; when Route returns nil the matcher holds nothing
C5_FailedMatchReleases ==
    [][\A r \in Reqs :
         (req[r].pc = "matching" /\ req'[r].pc \in {"routing", "nil"})
         => LET b == req[r].held
            IN  /\ bufs'[b].params = <<>>
                /\ pool'[b] = pool[b] + 1 /\ pool'[b] = 1
                /\ req'[r].held = NoBuf
                /\ req'[r].body = req[r].body
                /\ req'[r].path = req[r].path
                /\ \A a \in bodyChain(req[r].body) : bufs'[a] = bufs[a] /\ pool'[a] = pool[a]]_vars

C5_Witness ==
    \E r \in Reqs :
        /\ req[r].pc = "nil" /\ isParameters(req[r].body)
        /\ req[r].path = <<"/", "u", "/", "5", "/">>
        /\ bufs[req[r].body].params # <<>>
        /\ \E b \in DOMAIN bufs : pool[b] = 1 /\ bufs[b].params = <<>>

\* C6: the handler Chain returns is that of the first member, in the order
\* given, whose Route matches; the members after it are not consulted; nil
\* is returned only when no member matches
C6_ChainFirstMatch ==
    \A r \in Reqs :
        /\ Routed(r) =>
             /\ routeMatches(routes[req[r].h], req[r].path)
             /\ \A j \in 1..(req[r].h - 1) : ~routeMatches(routes[j], req[r].path)
             /\ req[r].idx = req[r].h
        /\ req[r].pc = "nil" =>
             \A j \in 1..Len(routes) : ~routeMatches(routes[j], req[r].path)
        /\ (Routed(r) /\ req[r].path = PatUserNew /\ Len(routes) = 2)
             => routes[req[r].h].p = routes[1].p

C6_Witness ==
    \E r \in Reqs :
        /\ Routed(r) /\ req[r].path = PatUserNew
        /\ Len(routes) = 2 /\ routes[1].p = PatUserId /\ routes[2].p = PatUserNew
        /\ req[r].h = 1

\* C7: a router of a marker-free pattern routes exactly the path equal to
\* its pattern (one leading separator, the rest byte for byte), and attaches
\* no parameters
C7_StaticExact ==
    (Len(routes) = 1 /\ routes[1].kind = "static" /\ Answered(R1))
    => /\ routes[1].p[1] = Slash
       /\ Len(routes[1].p) > 1 => routes[1].p[2] # Slash
       /\ Routed(R1) <=> req[R1].path = routes[1].p
       /\ req[R1].pc # "panicked"
       /\ Parameters(R1) = <<>>

C7_Witness ==
    /\ Len(routes) = 1 /\ routes[1].kind = "static"
    /\ Routed(R1) /\ Len(req[R1].path) = 4 /\ endsInSlash(req[R1].path)

\* a path /p/v/s with v free of separators
isPrefixVSuffix(path) ==
    /\ Len(path) >= 5
    /\ SubSeq(path, 1, 3) = <<"/", "p", "/">>
    /\ SubSeq(path, Len(path) - 1, Len(path)) = <<"/", "s">>
    /\ \A i \in 4..(Len(path) - 2) : path[i] # Slash

\* C8: the pattern /p/:x/s routes every path /p/v/s, v free of separators
\* and possibly empty, binding x to v; the parameters of any dynamic match
\* are in the order of the pattern
C8_NamedBinds ==
    /\ (Len(routes) = 1 /\ routes[1].p = PatPrefixSuffix /\ Answered(R1)
            /\ isPrefixVSuffix(req[R1].path))
       => /\ Routed(R1)
          /\ Parameters(R1) =
               <<[Key |-> <<"x">>, Value |-> SubSeq(req[R1].path, 4, Len(req[R1].path) - 2)]>>
    /\ (Len(routes) = 1 /\ routes[1].kind = "dynamic" /\ Routed(R1))
       => /\ Len(Parameters(R1)) = Len(paramKeys(routes[1].segments))
          /\ \A k \in 1..Len(Parameters(R1)) :
               Parameters(R1)[k].Key = paramKeys(routes[1].segments)[k]

C8_Witness ==
    /\ Len(routes) = 1 /\ routes[1].p = PatPrefixSuffix
    /\ Routed(R1) /\ req[R1].path = <<"/", "p", "/", "/", "s">>
    /\ Parameters(R1) = <<[Key |-> <<"x">>, Value |-> <<>>]>>

\* C9: the pattern /f/*r routes /f/, /f/a and /f/a/b/c, binding r to /, /a
\* and /a/b/c (the rest of the path with the separator before it), and does
\* not route /f
C9_CatchAll ==
    (Len(routes) = 1 /\ routes[1].p = PatFiles /\ Answered(R1))
    => LET path == req[R1].path
       IN  /\ (Len(path) >= 3 /\ SubSeq(path, 1, 3) = <<"/", "f", "/">>)
              => /\ Routed(R1)
                 /\ Parameters(R1) = <<[Key |-> <<"r">>, Value |-> SubSeq(path, 3, Len(path))]>>
           /\ path = <<"/", "f">> => req[R1].pc = "nil"
           /\ path = <<"/", "f", "/">>
              => Parameters(R1) = <<[Key |-> <<"r">>, Value |-> <<"/">>]>>
           /\ path = <<"/", "f", "/", "a", "/", "b", "/", "c">>
              => Parameters(R1) =
                   <<[Key |-> <<"r">>, Value |-> <<"/", "a", "/", "b", "/", "c">>]>>

C9_Witness ==
    /\ Len(routes) = 1 /\ routes[1].p = PatFiles
    /\ Routed(R1) /\ req[R1].path = <<"/", "f", "/", "a", "/", "b", "/", "c">>

\* C10: a router never routes across a trailing-slash mismatch: a pattern
\* without catch-all that does not end in a separator routes no path ending
\* in one, and a pattern that ends in a separator routes only paths ending
\* in one
C10_NoTrailingSlashMismatch ==
    (Len(routes) = 1 /\ Routed(R1))
    => /\ (~endsInSlash(routes[1].p) /\ ~hasCatchAll(routes[1].p))
          => ~endsInSlash(req[R1].path)
       /\ endsInSlash(routes[1].p) => endsInSlash(req[R1].path)

\* the segments of a pattern as given to New: the pieces between the
\* separators, a trailing separator being the pattern's flag, not a segment
segmentsOf(path) == Split(Trim(normalize(path)))

\* the four faults of a segment
markerCount(seg) == Cardinality({k \in 1..Len(seg) : seg[k] \in Markers})
markerNotFirst(seg) == markerCount(seg) > 0 /\ seg[1] \notin Markers
markerUnnamed(seg) == Len(seg) = 1 /\ seg[1] \in Markers
catchAllNotLast(seg, i, n) == Len(seg) > 0 /\ seg[1] = "*" /\ i # n
manyMarkers(seg) == markerCount(seg) > 1
faulty(seg, i, n) ==
    markerNotFirst(seg) \/ markerUnnamed(seg) \/ catchAllNotLast(seg, i, n) \/ manyMarkers(seg)

\* the first faulty segment of a pattern, 0 if none
firstFaulty(segs) ==
    IF \E i \in 1..Len(segs) : faulty(segs[i], i, Len(segs))
    THEN CHOOSE i \in 1..Len(segs) :
             /\ faulty(segs[i], i, Len(segs))
             /\ \A j \in 1..(i-1) : ~faulty(segs[j], j, Len(segs))
    ELSE 0

PatternErrors == {ErrNotAfterSlash, ErrNotNamed, ErrNotLast, ErrOneParam}
HandlerErrors == {ErrNilHandler, ErrNotHandler}

\* C11: a call of New whose pattern has a segment with a marker that is not
\* its first character, a marker without a name, a catch-all that is not the
\* last segment, or more than one marker, panics and returns no router; the
\* message is that of the fault of the first faulty segment (the four
\* messages differ); a nil or non-handler value panics with the handler's
\* message whatever the pattern is
C11_RegistrationPanics ==
    newArgs # NoArgs =>
      LET segs == segmentsOf(newArgs.path)
          n == Len(segs)
          i == firstFaulty(segs)
          hk == newArgs.hkind
      IN  /\ Cardinality(PatternErrors \cup HandlerErrors) = 6
          /\ regErr # NoPanic => routes = <<>>
          /\ hk = "nil" => regErr = ErrNilHandler
          /\ hk = "string" => regErr = ErrNotHandler
          /\ (hk \in {"HandlerFunc", "func"} /\ i > 0) =>
                /\ regErr \in PatternErrors
                /\ markerNotFirst(segs[i]) => regErr = ErrNotAfterSlash
                /\ markerUnnamed(segs[i]) => regErr = ErrNotNamed
                /\ (~markerNotFirst(segs[i]) /\ ~markerUnnamed(segs[i])
                       /\ catchAllNotLast(segs[i], i, n)) => regErr = ErrNotLast
                /\ (~markerNotFirst(segs[i]) /\ ~markerUnnamed(segs[i])
                       /\ ~catchAllNotLast(segs[i], i, n)) => regErr = ErrOneParam

\* the four pattern faults were each raised: here the catch-all before the
\* last segment, by the pattern *a/a given with a handler func
C11_Witness ==
    /\ newArgs = [path |-> <<"*", "a", "/", "a">>, hkind |-> "func"]
    /\ regErr = ErrNotLast
    /\ routes = <<>>

\* C12: New panics over the handler only when it is nil or no handler: a
\* value of any type implementing http.Handler, like a plain func, is
\* resolved into the route's handler
C12_AnyHandlerAccepted ==
    newArgs # NoArgs =>
      /\ regErr \in HandlerErrors => newArgs.hkind \in {"nil", "string"}
      /\ (newArgs.hkind \in {"HandlerFunc", "func", "Handler"}
             /\ firstFaulty(segmentsOf(newArgs.path)) = 0)
         => regErr = NoPanic /\ Len(routes) = 1

\* what Route resolves for a path: the first member that routes it, 0 when
\* Route returns nil
resolves(rt, path) == rt.kind # "none" /\ routeMatches(rt, path)
routeOf(path) ==
    IF \E j \in 1..Len(routes) : resolves(member(j), path)
    THEN CHOOSE j \in 1..Len(routes) :
             /\ resolves(member(j), path)
             /\ \A k \in 1..(j-1) : ~resolves(member(k), path)
    ELSE 0

\* C13: ServeHTTP invokes the handler Route resolves for the request, and
\* when it has returned the buffer is back in its pool and the body restored;
\* when Route resolves nil, also through a RouterFunc that returns a Router
\* which does not match, ServeHTTP answers not found, invokes no handler and
\* leaves no buffer attached; ServeHTTP never stops at Route's outcome
C13_ServeAsRoute ==
    \A r \in Reqs :
      req[r].call = "ServeHTTP" =>
        /\ req[r].pc \notin {"routed", "nil"}
        /\ req[r].pc \in {"serving", "served"} =>
              /\ routeOf(req[r].path) > 0
              /\ req[r].h = routeOf(req[r].path)
        /\ (req[r].pc = "serving" /\ member(req[r].h).kind = "dynamic") =>
              Parameters(r) = ownBindings(member(req[r].h), req[r].path)
        /\ req[r].pc = "served" =>
              /\ req[r].body = OrigBody
              /\ \A b \in DOMAIN bufs : pool[b] = 1 /\ bufs[b].params = <<>>
        /\ req[r].pc = "notfound" =>
              /\ routeOf(req[r].path) = 0
              /\ req[r].h = 0
              /\ req[r].body = OrigBody
              /\ \A b \in DOMAIN bufs : pool[b] = 1 /\ bufs[b].params = <<>>

\* ServeHTTP answered not found through a RouterFunc whose Router, of a
\* pattern with a parameter, did not match
C13_Witness ==
    /\ Len(routes) = 1 /\ routes[1].kind = "func" /\ routes[1].ret.kind = "dynamic"
    /\ req[R1].call = "ServeHTTP" /\ req[R1].pc = "notfound"
    /\ req[R1].path = <<"/", "u", "/", "5", "/">>

\* the handler of a match on a pattern with parameters is due or running
DynamicDue(r) == req[r].pc \in {"routed", "serving"} /\ member(req[r].h).kind = "dynamic"

RecycleStep(r) ==
    /\ Resting(r) /\ req'[r].pc \in {"recycled", "recycled2"}
    /\ req'[r].pc # req[r].pc

\* what Pattern returns for a Body
patternOfBody(r, body) == IF isParameters(body) THEN member(body[1]).p ELSE req[r].path

inUse(i) == {b \in UNION {attachedTo(r) : r \in Reqs} : b[1] = i}

\* C15: whatever buffers earlier matches left attached to requests that were
\* neither served nor recycled, a match attempt is refused a buffer only when
\* the pattern has MaxBufs buffers in use (the memory of the model); the
\* buffer it gets is empty and in no pool, and its outcome is that of a
\* fresh router: the first member routing the path and the bindings of that
\* path alone, nil when no member routes it
C15_LeaksDoNotBlock ==
    \A r \in Reqs :
        /\ (req[r].pc = "routing" /\ member(req[r].idx).kind = "dynamic")
              => \/ pooledOf(req[r].idx) # {}
                 \/ newIds(req[r].idx) # {}
                 \/ Cardinality(inUse(req[r].idx)) = MaxBufs
        /\ req[r].pc = "matching"
              => /\ bufs[req[r].held].params = <<>>
                 /\ pool[req[r].held] = 0
                 /\ \A q \in Reqs \ {r} : req[r].held \notin attachedTo(q)
        /\ Routed(r)
              => /\ req[r].h = routeOf(req[r].path)
                 /\ member(req[r].h).kind = "dynamic"
                      => Parameters(r) = ownBindings(member(req[r].h), req[r].path)
        /\ req[r].pc = "nil" => routeOf(req[r].path) = 0

\* a request matched by /u/:i was left neither served nor recycled, no buffer
\* lies in the pool, and a second request is matched on a buffer of its own
C15_Witness ==
    /\ Len(routes) = 1 /\ routes[1].p = PatUserId
    /\ req["r1"].pc = "routed" /\ req["r1"].body = <<1, 1>>
    /\ req["r2"].pc = "routed" /\ req["r2"].body = <<1, 2>>
    /\ \A b \in DOMAIN bufs : pool[b] = 0
    /\ Parameters("r2") = ownBindings(routes[1], req["r2"].path)

\* the request the Mux answers, and whether a step of the server applies to it
muxServes == methodMatch(mux.conf, mux.method, mux.path).ok
muxRedirects == redirectTrailingOrFixedPath(mux.conf, mux.method, mux.path).fix.hit
otherMethods ==
    {m \in DOMAIN mux.conf.routes \ {mux.method} :
        mux.path = <<"*">> \/ methodMatch(mux.conf, m, mux.path).ok}
muxAutoReplies == mux.method = "OPTIONS" /\ mux.conf.AutoOptionsReply /\ otherMethods # {}
muxNotAllowed == mux.conf.MethodNotAllowed /\ otherMethods # {}
firstApplicable ==
    IF muxServes THEN "SERVE"
    ELSE IF muxRedirects THEN "REDIRECT"
    ELSE IF muxAutoReplies THEN "OPTIONS"
    ELSE IF muxNotAllowed THEN "NOTALLOWED"
    ELSE "NOTFOUND"
muxAnswered == mux.stage = "done"
asSet(seq) == {seq[k] : k \in 1..Len(seq)}

\* C16: the server answers a request once, with the first of SERVE, REDIRECT
\* (301), OPTIONS reply (200), method-not-allowed handler, not-found handler
\* (the NotFound set, else the default 404) that applies; a step is consulted
\* only when none before it applies, and no step answers before it is
\* consulted
C16_FirstApplicableOutcome ==
    /\ muxAnswered =>
          /\ mux.out.kind = firstApplicable
          /\ mux.out.kind = "REDIRECT" => mux.out.code = 301
          /\ mux.out.kind = "OPTIONS" => mux.out.code = 200
          /\ mux.out.kind = "NOTFOUND" =>
                mux.out.code = 404 /\ mux.out.custom = mux.conf.NotFound
    /\ mux.stage \in {"idle", "router", "redirect", "options", "notallowed", "notfound"}
          => mux.out = NoOutcome
    /\ mux.stage \in {"redirect", "options", "notallowed", "notfound"} => ~muxServes
    /\ mux.stage \in {"options", "notallowed", "notfound"} => ~muxRedirects
    /\ mux.stage \in {"notallowed", "notfound"} => ~muxAutoReplies
    /\ mux.stage = "notfound" => ~muxNotAllowed

\* an OPTIONS request got the automatic reply although a MethodNotAllowed
\* and a NotFound handler were set
C16_Witness ==
    /\ muxAnswered /\ mux.out.kind = "OPTIONS"
    /\ mux.conf.MethodNotAllowed /\ mux.conf.NotFound
    /\ mux.path = MuxABSlash

\* C17: with RedirectTrailingSlash set and RedirectFixedPath not set, and
\* only /a/b/ registered for GET, a GET of /a/b is redirected to /a/b/
C17_TrailingSlashAlone ==
    (muxAnswered /\ mux.conf.RedirectTrailingSlash /\ ~mux.conf.RedirectFixedPath
        /\ mux.conf.routes["GET"] = <<MuxABSlash>>
        /\ mux.method = "GET" /\ mux.path = MuxAB)
    => mux.out.kind = "REDIRECT" /\ mux.out.to = MuxABSlash

\* a path with the trailing separator taken off or put on
otherForm(p) == IF endsInSlash(p) THEN SubSeq(p, 1, Len(p) - 1) ELSE p \o <<Slash>>

\* C18: with the default options, a request its method's routes do not
\* match, whose path with the trailing separator toggled they do match, is
\* answered 301 to that toggled path: /a/b to /a/b/ with /a/b/ registered,
\* /a/bb/c/ to /a/bb/c with /a/:b/c registered
C18_SlashToggledRedirect ==
    (muxAnswered /\ isDefault(mux.conf) /\ mux.path # <<"*">>) =>
      /\ (~muxServes /\ methodMatch(mux.conf, mux.method, otherForm(mux.path)).ok)
            => /\ mux.out.kind = "REDIRECT" /\ mux.out.code = 301
               /\ mux.out.to = otherForm(mux.path)
      /\ (mux.method = "GET" /\ mux.path = MuxAB /\ mux.conf.routes["GET"] = <<MuxABSlash>>)
            => mux.out.kind = "REDIRECT" /\ mux.out.to = MuxABSlash
      /\ (mux.method = "GET" /\ mux.path = <<"/", "a", "/", "b", "b", "/", "c", "/">>
             /\ Len(mux.conf.routes["GET"]) = 3)
            => mux.out.kind = "REDIRECT" /\ mux.out.to = <<"/", "a", "/", "b", "b", "/", "c">>

C18_Witness ==
    /\ muxAnswered /\ isDefault(mux.conf)
    /\ mux.method = "GET" /\ mux.path = <<"/", "a", "/", "b", "b", "/", "c", "/">>
    /\ mux.out.kind = "REDIRECT" /\ mux.out.to = <<"/", "a", "/", "b", "b", "/", "c">>

\* the path made of a pattern's static segments and, where the pattern has
\* a parameter, of the segment of the path tried
rebuilt(pat, tried) ==
    LET ps == Split(pat)
        ts == Split(tried)
    IN  IF Len(ps) # Len(ts) THEN <<>>
        ELSE Join([k \in 1..Len(ps) |->
                      IF \E j \in 1..Len(ps[k]) : ps[k][j] \in Markers THEN ts[k] ELSE ps[k]])

\* C19: the target of a redirect is a registered pattern of the request's
\* method with each parameter segment replaced by the segment of the
\* cleaned (or slash-toggled) request path, in the request's case, and each
\* static segment as registered; it differs from the path tried by case
\* only: /v/a and /v/a/ are redirected to the registered /v/A/, /A/Bb/c to
\* /a/Bb/c with /a/:b/c registered
C19_RedirectRebuiltFromPattern ==
    (muxAnswered /\ mux.out.kind = "REDIRECT") =>
      /\ \E k \in 1..Len(mux.conf.routes[mux.method]) :
           \E tried \in {Clean(mux.path), otherForm(Clean(mux.path))} :
              /\ mux.out.to = rebuilt(normalize(mux.conf.routes[mux.method][k]), tried)
              /\ EqualFold(mux.out.to, tried)
      /\ mux.path \in {<<"/", "v", "/", "a">>, <<"/", "v", "/", "a", "/">>}
            => mux.out.to = MuxVUpper
      /\ mux.path = <<"/", "A", "/", "B", "b", "/", "c">>
            => mux.out.to = <<"/", "a", "/", "B", "b", "/", "c">>

C19_Witness ==
    /\ muxAnswered /\ mux.out.kind = "REDIRECT"
    /\ mux.path = <<"/", "A", "/", "B", "b", "/", "c">>
    /\ mux.out.to = <<"/", "a", "/", "B", "b", "/", "c">>

\* the Allow header lists the methods of S, OPTIONS aside
allowLists(S) ==
    /\ asSet(mux.out.allow) \ {"OPTIONS"} = S \ {"OPTIONS"}
    /\ asSet(mux.out.allow) \subseteq S \cup {"OPTIONS"}
    /\ Len(mux.out.allow) = Cardinality(asSet(mux.out.allow))

\* C20 as stated: with a MethodNotAllowed handler set, a request its method's
\* routes do not match and another method's routes do is answered by that
\* handler, Allow listing those methods (and possibly OPTIONS); when no
\* other method's routes match its path the handler is not used
C20_AsStated ==
    (muxAnswered /\ mux.conf.MethodNotAllowed /\ ~muxServes) =>
      /\ (\E m \in DOMAIN mux.conf.routes \ {mux.method} :
              methodMatch(mux.conf, m, mux.path).ok)
            => mux.out.kind = "NOTALLOWED" /\ allowLists(otherMethods)
      /\ (\A m \in DOMAIN mux.conf.routes \ {mux.method} :
              ~methodMatch(mux.conf, m, mux.path).ok)
            => mux.out.kind # "NOTALLOWED"

\* C20, amended: such a request is answered by the MethodNotAllowed handler
\* when it is not redirected first and is not an OPTIONS request answered
\* by the automatic reply; Allow then lists, each once, the other methods
\* whose routes match the path (for the path * every other method with
\* routes), and OPTIONS besides exactly when AutoOptionsReply is set;
\* the handler is used in no other case: GET and POST registered on /x and
\* a DELETE of /x gives GET, POST and, with AutoOptionsReply, OPTIONS
C20_NotAllowedWithAllow ==
    muxAnswered =>
      /\ (mux.conf.MethodNotAllowed /\ ~muxServes /\ ~muxRedirects /\ ~muxAutoReplies
             /\ otherMethods # {})
            => mux.out.kind = "NOTALLOWED"
      /\ mux.out.kind = "NOTALLOWED" =>
            /\ mux.conf.MethodNotAllowed /\ ~muxServes /\ otherMethods # {}
            /\ allowLists(otherMethods)
            /\ ("OPTIONS" \in asSet(mux.out.allow))
                  <=> (mux.conf.AutoOptionsReply \/ "OPTIONS" \in otherMethods)
      /\ (mux.conf.MethodNotAllowed /\ mux.method = "DELETE" /\ mux.path = MuxX
             /\ mux.conf.routes["GET"] = <<MuxX>>)
            => /\ mux.out.kind = "NOTALLOWED"
               /\ asSet(mux.out.allow) =
                     {"GET", "POST"} \cup (IF mux.conf.AutoOptionsReply THEN {"OPTIONS"} ELSE {})

C20_Witness ==
    /\ muxAnswered /\ mux.out.kind = "NOTALLOWED"
    /\ mux.method = "DELETE" /\ mux.path = MuxX
    /\ mux.out.allow = <<"POST", "GET", "OPTIONS">>

\* the Mux answered with an Allow header
muxAllows == muxAnswered /\ mux.out.kind \in {"OPTIONS", "NOTALLOWED"}

\* C21 as stated: every Allow header the Mux emits, from the OPTIONS reply
\* or from the method-not-allowed handler, contains OPTIONS, also with
\* AutoOptionsReply not set and a MethodNotAllowed handler set
C21_AsStated ==
    muxAllows => "OPTIONS" \in asSet(mux.out.allow)

\* C21, amended: an Allow header names OPTIONS, once, exactly when
\* AutoOptionsReply is set or OPTIONS is itself another method whose routes
\* match, and in the first case alone it comes last; the header of the
\* automatic reply always names it; with
\* AutoOptionsReply not set and a MethodNotAllowed handler set, an OPTIONS
\* request of /a/b/ registered for GET alone is answered with Allow: GET
C21_OptionsWhenAutoReply ==
    muxAllows =>
      /\ ("OPTIONS" \in asSet(mux.out.allow))
            <=> (mux.conf.AutoOptionsReply \/ "OPTIONS" \in otherMethods)
      /\ Cardinality({k \in 1..Len(mux.out.allow) : mux.out.allow[k] = "OPTIONS"}) <= 1
      /\ (mux.conf.AutoOptionsReply /\ "OPTIONS" \notin otherMethods)
            => mux.out.allow[Len(mux.out.allow)] = "OPTIONS"
      /\ mux.out.kind = "OPTIONS" => "OPTIONS" \in asSet(mux.out.allow)
      /\ (~mux.conf.AutoOptionsReply /\ mux.method = "OPTIONS" /\ mux.path = MuxABSlash
             /\ Len(mux.conf.routes["GET"]) = 3)
            => mux.out.kind = "NOTALLOWED" /\ mux.out.allow = <<"GET">>

\* the method-not-allowed handler answered an OPTIONS request with Allow: GET
C21_Witness ==
    /\ muxAllows /\ mux.out.kind = "NOTALLOWED"
    /\ ~mux.conf.AutoOptionsReply /\ mux.conf.MethodNotAllowed
    /\ mux.method = "OPTIONS" /\ mux.path = MuxABSlash
    /\ mux.out.allow = <<"GET">>

\* an OPTIONS request, AutoOptionsReply set, that the OPTIONS routes do not match
muxOptionsUnrouted ==
    muxAnswered /\ mux.method = "OPTIONS" /\ mux.conf.AutoOptionsReply /\ ~muxServes

\* the automatic reply: 200, Allow naming OPTIONS and the methods of S, each once
autoReply(S) ==
    /\ mux.out.kind = "OPTIONS" /\ mux.out.code = 200
    /\ asSet(mux.out.allow) = S \cup {"OPTIONS"}
    /\ Len(mux.out.allow) = Cardinality(asSet(mux.out.allow))

\* C22 as stated: an OPTIONS request with AutoOptionsReply set that no
\* OPTIONS route matches is answered 200 with Allow naming OPTIONS and every
\* other method whose routes match the path (every registered method for
\* the path *); with no such method there is no automatic reply
C22_AsStated ==
    muxOptionsUnrouted =>
       IF otherMethods # {} THEN autoReply(otherMethods) ELSE mux.out.kind # "OPTIONS"

\* C22, amended: the same, for a request that is not redirected first; the
\* automatic reply is given to no other request; with GET /a/b/ and
\* POST /h/:n registered, OPTIONS /a/b/ gives GET and OPTIONS, and
\* OPTIONS * gives GET, POST and OPTIONS
C22_AutoOptionsReply ==
    /\ (muxOptionsUnrouted /\ ~muxRedirects) =>
          /\ IF otherMethods # {} THEN autoReply(otherMethods) ELSE mux.out.kind # "OPTIONS"
          /\ mux.path = <<"*">> => autoReply(DOMAIN mux.conf.routes)
          /\ (mux.path = MuxABSlash /\ Len(mux.conf.routes["GET"]) = 3) => autoReply({"GET"})
          /\ (mux.path = <<"*">> /\ Len(mux.conf.routes["GET"]) = 3) => autoReply({"GET", "POST"})
    /\ (muxAnswered /\ mux.out.kind = "OPTIONS") => muxOptionsUnrouted /\ ~muxRedirects

\* OPTIONS * was answered 200 with GET, POST and OPTIONS allowed
C22_Witness ==
    /\ muxOptionsUnrouted /\ mux.path = <<"*">>
    /\ mux.out.kind = "OPTIONS" /\ mux.out.code = 200
    /\ asSet(mux.out.allow) = {"GET", "POST", "OPTIONS"}

\* a path with no empty, . or .. element
RECURSIVE noneIn(_, _)
noneIn(elems, S) == Len(elems) = 0 \/ (Head(elems) \notin S /\ noneIn(Tail(elems), S))
cleanForm(q) ==
    /\ Len(q) > 0 /\ q[1] = Slash
    /\ \A k \in 1..(Len(q) - 1) : ~(q[k] = Slash /\ q[k + 1] = Slash)
    /\ noneIn(Split(q), {<<".">>, <<".", ".">>})
    /\ \A k \in 1..Len(q) : q[k] # ZeroByte

\* C23: cleanPath is idempotent, cleanPath(cleanPath(p)) = cleanPath(p) for
\* every path p, and what it returns starts with '/' (and has no empty, .
\* or .. element); a/./../b gives /b, /a/b/.. gives /a and /a/. gives /a/
C23_CleanPathIdempotent ==
    /\ clean.pc \in {"cleaned", "recleaned"} =>
          /\ clean.out = cleanPath(clean.p)
          /\ Len(clean.out) > 0 /\ clean.out[1] = Slash
          /\ cleanForm(clean.out)
    /\ clean.pc = "recleaned" =>
          /\ clean.p = cleanPath(clean.of)
          /\ clean.out = clean.p
    /\ (clean.pc = "cleaned" /\ clean.p = <<"a", "/", ".", "/", ".", ".">>)
          => clean.out = <<"/">>
    /\ (clean.pc = "cleaned" /\ clean.p = <<"/", "a", "/", "b", "/", ".", ".">>)
          => clean.out = <<"/", "a">>
    /\ (clean.pc = "cleaned" /\ clean.p = <<"/", "a", "/", ".">>)
          => clean.out = <<"/", "a", "/">>
    /\ (clean.pc = "cleaned" /\ clean.p = <<"a", "/", "/", "b", "/">>)
          => clean.out = <<"/", "a", "/", "b", "/">>

\* /a/../b was cleaned to /b, and /b was cleaned again
C23_Witness ==
    /\ clean.pc = "recleaned"
    /\ clean.of = <<"/", "a", "/", ".", ".", "/", "b">>
    /\ clean.p = <<"/", "b">>
    /\ clean.out = <<"/", "b">>

\* the routes registered for the method of the request the Mux answered
optPack == IF mux.method \in DOMAIN mux.conf.routes THEN mux.conf.routes[mux.method] ELSE <<>>
\* the registrations of a marker-free path equal to the request's path, and
\* those of a pattern with a marker that matches it
staticHits == {k \in 1..Len(optPack) : markerFree(optPack[k]) /\ optPack[k].path = mux.path}
dynamicHits ==
    {k \in 1..Len(optPack) :
        /\ ~markerFree(optPack[k])
        /\ routerGoMatch(Route(optPack[k].path, optPack[k].h, "HandlerFunc").route, mux.path).ok}

\* C24: a method's lookup consults the table of marker-free paths first and
\* the dynamic routes second: a request whose path is a registered
\* marker-free path is served by the handler the table holds for it (that
\* of its last registration), also when a dynamic route that matches was
\* registered before it; any other request is served by the first
\* registered dynamic route that matches, or by none
C24_StaticBeforeDynamic ==
    mux.stage = "done" =>
      /\ staticHits # {} =>
            \E k \in staticHits : /\ mux.h = optPack[k].h
                                  /\ \A j \in staticHits : j <= k
      /\ (staticHits = {} /\ dynamicHits # {}) =>
            \E k \in dynamicHits : /\ mux.h = optPack[k].h
                                   /\ \A j \in dynamicHits : k <= j
      /\ (staticHits = {} /\ dynamicHits = {}) => mux.h = 0
      /\ (mux.method = "GET" /\ mux.path = OptStatic
             /\ optPack = <<RouteOf(OptParam, 1), RouteOf(OptStatic, 2)>>) => mux.h = 2
      /\ (mux.method = "GET" /\ mux.path = <<"/", "x", "/", "w">>
             /\ optPack = <<RouteOf(OptCatchAll, 3), RouteOf(OptOther, 4), RouteOf(OptParam, 1)>>)
            => mux.h = 3

\* GET /x/y was served by the handler of /x/y, registered after /x/:p
C24_Witness ==
    /\ mux.stage = "done" /\ mux.method = "GET" /\ mux.path = OptStatic
    /\ optPack = <<RouteOf(OptParam, 1), RouteOf(OptStatic, 2)>>
    /\ 1 \in dynamicHits
    /\ mux.h = 2

\* the value a request matched by /f/*r has for r
filesValue(r) == Parameters(r)[1].Value
matchedFiles(r, path) ==
    /\ routes = <<Route(PatFiles, 1, "func").route>>
    /\ req[r].pc = "routed" /\ req[r].path = path /\ isParameters(req[r].body)

\* C25: in src/router.go a catch-all is bound to the rest of the path with
\* the '/' before it: with /f/*r the requests /f/, /f/a and /f/a/b/c bind r
\* to /, /a and /a/b/c
C25_CatchAllKeepsSlash ==
    \A r \in Reqs :
        /\ matchedFiles(r, <<"/", "f", "/">>) => filesValue(r) = <<"/">>
        /\ matchedFiles(r, <<"/", "f", "/", "a">>) => filesValue(r) = <<"/", "a">>
        /\ matchedFiles(r, <<"/", "f", "/", "a", "/", "b", "/", "c">>)
              => filesValue(r) = <<"/", "a", "/", "b", "/", "c">>

\* C30: in src/router.go, once the handler of a matched dynamic route has
\* completed and the buffer lies in the pool again, the served request does
\* not reference it any more: no buffer is reachable from the Body of one
\* request and, re-acquired, held by or attached to another request
C30_ServedRequestLetsGo ==
    \A r \in Reqs :
        /\ req[r].pc = "served" => \A b \in bodyChain(req[r].body) : pool[b] = 0
        /\ \A o \in Reqs \ {r} : bodyChain(req[r].body) \cap attachedTo(o) = {}

\* C26: after any sequence of match, serve and Recycle on any requests, a
\* buffer lying in a pool is empty and lies there once, no buffer lies in a
\* pool and is held by or attached to a request, and no buffer has more
\* bindings than its pattern has parameters (no match ran over the capacity)
C26_PoolInvariants ==
    /\ \A b \in DOMAIN bufs :
         /\ pool[b] \in {0, 1}
         /\ pool[b] > 0 => bufs[b].params = <<>>
         /\ pool[b] > 0 => \A r \in Reqs : b \notin attachedTo(r)
         /\ member(b[1]).kind = "dynamic"
         /\ Len(bufs[b].params) <= member(b[1]).num
    /\ \A r \in Reqs : req[r].pc # "panicked"

\* a request was matched, served and recycled and its buffer lies in the
\* pool, empty, while the other request's handler runs on a buffer of its own
\* that is full
C26_Witness ==
    /\ req["r1"].pc = "recycled" /\ ~isParameters(req["r1"].body)
    /\ req["r2"].pc = "serving" /\ isParameters(req["r2"].body)
    /\ Len(Parameters("r2")) = member(req["r2"].body[1]).num
    /\ pool[req["r2"].body] = 0
    /\ \E b \in DOMAIN bufs : pool[b] = 1 /\ bufs[b].params = <<>>

\* C27: when Chain's Route has returned on a request that had no binding
\* attached, the buffers the failed members took are back in their pools: a
\* dynamic member matched and one buffer, of that member's pattern, is
\* attached to the request; or a static member or no member matched and
\* none is; and every buffer allocated lies in its pool or is with a request
C27_ChainReturnsFailedBuffers ==
    /\ \A r \in Reqs :
         /\ (req[r].pc = "routed" /\ member(req[r].h).kind = "dynamic") =>
               /\ attachedTo(r) = {req[r].body}
               /\ req[r].body[1] = req[r].h
               /\ req[r].held = NoBuf
               /\ \A j \in 1..(req[r].h - 1) :
                     \A b \in DOMAIN bufs : b[1] = j => (pool[b] = 1 \/ \E o \in Reqs \ {r} : b \in attachedTo(o))
         /\ (req[r].pc = "routed" /\ member(req[r].h).kind = "static") => attachedTo(r) = {}
         /\ req[r].pc = "nil" => attachedTo(r) = {}
    /\ \A b \in DOMAIN bufs :
         \/ pool[b] = 1 /\ \A r \in Reqs : b \notin attachedTo(r)
         \/ pool[b] = 0 /\ \E r \in Reqs : b \in attachedTo(r)

\* /u/5 was routed by /u/:i after /u/:i/:b/ failed on it: the buffer of the
\* failed member is in its pool, that of /u/:i is attached
C27_Witness ==
    /\ routes[1].p = PatUsers /\ routes[2].p = PatUserId
    /\ req["r1"].pc = "routed" /\ req["r1"].path = <<"/", "u", "/", "5">>
    /\ req["r1"].h = 2 /\ req["r1"].body = <<2, 1>>
    /\ req["r2"].pc = "idle"
    /\ DOMAIN bufs = {<<1, 1>>, <<2, 1>>}
    /\ pool[<<1, 1>>] = 1 /\ pool[<<2, 1>>] = 0

\* C29: the Allow header is a function of the Mux and the request: every
\* evaluation of a request gives the same methods in the same order, the
\* one answer there can be; OPTIONS * with GET and POST registered always
\* gives GET,POST,OPTIONS
C29_AllowDeterministic ==
    muxAllows =>
      /\ \A other \in allowed(mux.conf, mux.method, mux.path) : other = mux.out.allow
      /\ (mux.method = "OPTIONS" /\ mux.path = <<"*">> /\ mux.conf.AutoOptionsReply
             /\ DOMAIN mux.conf.routes = {"GET", "POST"})
            => mux.out.allow = <<"GET", "POST", "OPTIONS">>


====
